---- MODULE Spec2Model ----
(***************************************************************************)
(* The CDP relay of the native-messaging host: CDPRelayServer and          *)
(* ExtensionConnection (cdpRelay.ts, kept in src/extension/crx/src/        *)
(* connect.ts from line 64 on) over the NativeMessagingHost transport.     *)
(*                                                                         *)
(* Node runs one callback at a time and drains the promise continuations   *)
(* it woke up before the next callback starts.  Every action below is      *)
(* therefore one callback together with the continuations it wakes up.     *)
(* The handlers are operators on a record w holding the program state; an  *)
(* action applies them to the current state and installs the result.       *)
(*                                                                         *)
(* What a callback did is kept for one step: now is the callback that ran  *)
(* last, out the messages it passed to _sendToPlaywright, written the      *)
(* frames it wrote to the extension, settledNow the promises it settled.   *)
(* calls keeps, for every send() ever made, what it was made for, and      *)
(* commands, for every consumer command, how many responses it got.        *)
(*                                                                         *)
(* JSON values are records; an absent / undefined value is Undefined, an   *)
(* absent id is 0, an absent string is "".                                 *)
(***************************************************************************)
EXTENDS Integers, Sequences, FiniteSets, TLC

\* Bounds of the model.
MaxInputs == 3   \* inputs of one run: consumer connections, consumer commands,
                 \* and frames the extension sends unasked
MaxChunk == 2    \* frames a handler finds in one chunk: of stdin, or of a
                 \* consumer socket
MaxFrames == 2   \* frames of a byte stream given to the frame decoder
MaxCycles == 2   \* RelayConnections the extension creates, one after another
MaxSessions == 3 \* client sessions of one server with a context factory
MaxClients == 2  \* clients of one server with a persistent context factory
MaxRequests == 2 \* acceptMCPConnection requests the native host sends
MaxContexts == 2 \* browser contexts one Context asks its factory for
MaxPages == 2    \* pages opened in the browser contexts of one Context

VARIABLES
  playwrightSocket,     \* CDPRelayServer._playwrightSocket: 0 (null) or a socket
  extensionConnection,  \* CDPRelayServer._extensionConnection: 0 (null) or 1
  connectionInfo,       \* CDPRelayServer._connectionInfo
  lastId,               \* ExtensionConnection._lastId
  callbacks,            \* ExtensionConnection._callbacks: id -> awaiting continuation
  readyState,           \* readyState of every consumer WebSocket
  closeFrame,           \* code and reason the relay passed to close() of it
  exitCode,             \* "none" while the process runs, else its exit code
  stopped,              \* history: whether stop() was called, whether a target
                        \* was attached for a consumer then with no detach
                        \* under way, and the last id allocated then
  commandCount,         \* consumer: commands each socket has sent
  requests,             \* extension: requests received and not answered yet
  unsolicited,          \* extension: events and stray responses emitted so far
  attachedTab,          \* extension: what attachToTab returned for the tab the
                        \* debugger is attached to, Undefined when detached
  now,                  \* history: the callback that ran last
  out,                  \* history: the _sendToPlaywright calls of that callback
  written,              \* history: the frames that callback wrote to stdout
  settledNow,           \* history: the promises that callback settled
  calls,                \* history: one entry per send(), indexed by its id
  commands,             \* history: per command, its socket and the number
                        \* of responses sent for it
  refusedFrom           \* history: serial of the first command received
                        \* without an extension connection, 0 if none

vars == << playwrightSocket, extensionConnection, connectionInfo, lastId,
           callbacks, readyState, closeFrame, exitCode, stopped, commandCount, requests,
           unsolicited, attachedTab, now, out, written, settledNow, calls, commands,
           refusedFrom >>

\* Parts of the repository that are specified on their own, each by a
\* specification whose actions leave the relay alone, and which the
\* relay's actions leave alone.
VARIABLES
  host,                 \* NativeMessagingHost: its frame decoder at byte level
  extension,            \* the extension: its RelayConnections and chrome.debugger
  factory,              \* BaseContextFactory, its browsers and its clients
  persistent,           \* PersistentContextFactory: its createContext calls
  backend,             \* ProxyBackend or VSCodeProxyBackend and its clients
  client,              \* NativeMessagingClient: its acceptMCPConnection requests
  context               \* Context: its browser context, its tabs and their pages

others == << host, extension, factory, persistent, backend, client, context >>

Sockets == 1 .. MaxInputs

Undefined == [undefined |-> TRUE]

----------------------------------------------------------------------------
(* Values exchanged with the consumer and the extension.                   *)

\* CDPCommand {id, sessionId?, method, params?}
CDPCommand(id, sessionId, method, params) ==
  [id |-> id, sessionId |-> sessionId, method |-> method, params |-> params]

\* CDPResponse {id?, sessionId?, method?, params?, result?, error?}
CDPResponse(id, sessionId, method, params, result, error) ==
  [id |-> id, sessionId |-> sessionId, method |-> method, params |-> params,
   result |-> result, error |-> error]

\* What the consumer may send: the four intercepted methods, a root and a
\* nested Target.setAutoAttach, and two methods that are forwarded.
ConsumerInputs ==
  { [method |-> "Browser.getVersion", sessionId |-> "", params |-> Undefined],
    [method |-> "Browser.setDownloadBehavior", sessionId |-> "",
     params |-> [behavior |-> "allow"]],
    [method |-> "Target.getTargetInfo", sessionId |-> "", params |-> Undefined],
    [method |-> "Target.setAutoAttach", sessionId |-> "",
     params |-> [autoAttach |-> TRUE]],
    [method |-> "Target.setAutoAttach", sessionId |-> "pw-tab-7",
     params |-> [autoAttach |-> TRUE]],
    [method |-> "Page.navigate", sessionId |-> "pw-tab-7",
     params |-> [url |-> "about:blank"]],
    [method |-> "Browser.close", sessionId |-> "", params |-> Undefined] }

\* The targetInfo chrome.debugger reports for the bound tab; it changes when
\* the tab navigates.
TargetInfos ==
  { [targetId |-> "T7", url |-> "about:blank"],
    [targetId |-> "T7", url |-> "https://example.com/"] }

\* The two shapes of an error the extension side puts in a response:
\* {message} and the bare string of NativeMessagingClient.
ExtensionErrors ==
  { [message |-> "Debugger is not attached to the tab"],
    [text |-> "No native messaging transport"] }

\* new Error(object.error.message).message
ErrorMessage(error) ==
  IF "message" \in DOMAIN error THEN error.message ELSE ""

----------------------------------------------------------------------------
(* The program state as one record, and its installation as next state.    *)
(* microtasks holds the promise continuations woken up by the running      *)
(* callback; it is empty between callbacks.                                *)

World ==
  [playwrightSocket |-> playwrightSocket,
   extensionConnection |-> extensionConnection,
   connectionInfo |-> connectionInfo,
   lastId |-> lastId,
   callbacks |-> callbacks,
   readyState |-> readyState,
   closeFrame |-> closeFrame,
   exitCode |-> exitCode,
   calls |-> calls,
   commands |-> commands,
   out |-> << >>,
   written |-> << >>,
   settledNow |-> << >>,
   microtasks |-> << >>]

Install(w) ==
  /\ playwrightSocket' = w.playwrightSocket
  /\ extensionConnection' = w.extensionConnection
  /\ connectionInfo' = w.connectionInfo
  /\ lastId' = w.lastId
  /\ callbacks' = w.callbacks
  /\ readyState' = w.readyState
  /\ closeFrame' = w.closeFrame
  /\ exitCode' = w.exitCode
  /\ calls' = w.calls
  /\ commands' = w.commands
  /\ out' = w.out
  /\ written' = w.written
  /\ settledNow' = w.settledNow

\* The continuation of one `await send(...)`: which await it is (kind) and
\* the consumer command being handled (message), with two history fields:
\* the serial number of that command (cause, 0 for none) and the id send()
\* allocated for the call.
Continuation(kind, message, cause) ==
  [kind |-> kind, message |-> message, cause |-> cause, call |-> 0]

NoCommand == CDPCommand(0, "", "", Undefined)

----------------------------------------------------------------------------
(* CDPRelayServer._sendToPlaywright                                        *)
(* this._playwrightSocket?.send(...): nothing is sent without a socket,    *)
(* and ws drops a send on a socket that is not OPEN.  `to` records the     *)
(* socket that got the message, 0 when nobody did.                         *)
sendToPlaywright(w, message, cause) ==
  LET ws == w.playwrightSocket
      to == IF ws # 0 /\ w.readyState[ws] = "OPEN" THEN ws ELSE 0
  IN [w EXCEPT
        !.out = Append(@, [to |-> to, message |-> message, cause |-> cause]),
        !.commands = IF cause # 0 /\ message.id # 0
                     THEN [@ EXCEPT ![cause].responses = @ + 1] ELSE @]

(* ExtensionConnection.send: id = ++_lastId, write the frame, register the *)
(* callbacks under id.                                                     *)
send(w, method, params, cont) ==
  LET id == w.lastId + 1
  IN [w EXCEPT
        !.lastId = id,
        !.written = Append(@, [id |-> id, method |-> method, params |-> params,
                               sessionId |-> ""]),
        !.calls = Append(@, [kind |-> cont.kind, cause |-> cont.cause]),
        !.callbacks = [k \in (DOMAIN @) \cup {id} |->
                         IF k = id THEN [cont EXCEPT !.call = id] ELSE @[k]]]

(* ExtensionConnection.close: only notifies onclose, which the relay's     *)
(* constructor set to drop its reference to the connection.                *)
close(w) ==
  [w EXCEPT !.extensionConnection = 0]

(* CDPRelayServer._forwardToExtension, up to its await.                    *)
forwardToExtension(w, message, cause) ==
  IF w.extensionConnection = 0
  THEN sendToPlaywright(w,
         CDPResponse(message.id, message.sessionId, "", Undefined, Undefined,
                     [message |-> "Extension not connected"]), cause)
  ELSE send(w, "forwardCDPCommand",
            [sessionId |-> message.sessionId, method |-> message.method,
             params |-> message.params],
            Continuation("forward", message, cause))

(* CDPRelayServer._forwardToExtension, after its await: the result is sent *)
(* with the command's id and sessionId; a rejection is caught and sent as  *)
(* error.message.                                                          *)
forwardSettled(w, cont, outcome, value) ==
  IF outcome = "resolve"
  THEN sendToPlaywright(w,
         CDPResponse(cont.message.id, cont.message.sessionId, "", Undefined,
                     value, Undefined), cont.cause)
  ELSE sendToPlaywright(w,
         CDPResponse(cont.message.id, cont.message.sessionId, "", Undefined,
                     Undefined, [message |-> value.message]), cont.cause)

\* The fabricated event of the simulated auto-attach.
attachedToTarget(info) ==
  CDPResponse(0, "", "Target.attachedToTarget",
    [sessionId |-> info.sessionId,
     targetInfo |-> [targetId |-> info.targetInfo.targetId,
                     url |-> info.targetInfo.url,
                     attached |-> TRUE],
     waitingForDebugger |-> FALSE],
    Undefined, Undefined)

\* Mutant of attachSettled: the acknowledgement is sent before the event.
attachSettledAckFirst(w, cont, outcome, value) ==
  IF outcome = "reject" THEN w
  ELSE
    LET w1 == [w EXCEPT !.connectionInfo = value]
    IN IF value = Undefined THEN w1
       ELSE sendToPlaywright(
              sendToPlaywright(w1,
                CDPResponse(cont.message.id, "", "", Undefined, Undefined, Undefined),
                cont.cause),
              attachedToTarget(w1.connectionInfo), cont.cause)

(* CDPRelayServer._interceptCDPCommand, case Target.setAutoAttach without  *)
(* sessionId, after its await: store the result, send the fabricated       *)
(* Target.attachedToTarget event, then the acknowledgement.  A rejection   *)
(* leaves the function as an exception, which the 'message' handler of the *)
(* socket catches and logs.  Reading .sessionId of a result that is not an *)
(* object throws in the same way, after the assignment.                    *)
attachSettled(w, cont, outcome, value) ==
  IF outcome = "reject" THEN w
  ELSE
    LET w1 == [w EXCEPT !.connectionInfo = value]
    IN IF value = Undefined THEN w1
       ELSE
         LET w2 == sendToPlaywright(w1, attachedToTarget(w1.connectionInfo),
                                    cont.cause)
         IN sendToPlaywright(w2,
              CDPResponse(cont.message.id, "", "", Undefined, Undefined, Undefined),
              cont.cause)

(* CDPRelayServer._detachDebugger, after its await.  The caller discards   *)
(* the promise (`void this._detachDebugger()`), so a rejection is an       *)
(* unhandled rejection, which ends a Node 20 process with exit code 1.     *)
detachSettled(w, cont, outcome, value) ==
  IF outcome = "reject" THEN [w EXCEPT !.exitCode = "1"] ELSE w

(* CDPRelayServer._detachDebugger, up to its await.                        *)
detachDebugger(w) ==
  LET w1 == [w EXCEPT !.connectionInfo = Undefined]
  IN IF w1.extensionConnection = 0 THEN w1
     ELSE send(w1, "detachFromTab", [empty |-> TRUE],
               Continuation("detach", NoCommand, 0))

\* The three cases of _interceptCDPCommand that are answered at once.
interceptLocal(w, message, cause) ==
  CASE message.method = "Browser.getVersion" ->
         sendToPlaywright(w,
           CDPResponse(message.id, "", "", Undefined,
             [protocolVersion |-> "1.3",
              product |-> "Chrome/Extension-Bridge",
              userAgent |-> "CDP-Bridge-Server/1.0.0"],
             Undefined), cause)
    [] message.method = "Browser.setDownloadBehavior" ->
         sendToPlaywright(w,
           CDPResponse(message.id, "", "", Undefined, Undefined, Undefined),
           cause)
    [] message.method = "Target.getTargetInfo" ->
         sendToPlaywright(w,
           CDPResponse(message.id, "", "", Undefined,
             IF w.connectionInfo = Undefined THEN Undefined
             ELSE w.connectionInfo.targetInfo,
             Undefined), cause)

\* Mutant of interceptCDPCommand: the case Target.getTargetInfo is missing,
\* so that method is forwarded like any other.
interceptCDPCommandNoTargetInfo(w, message, cause) ==
  CASE message.method \in {"Browser.getVersion", "Browser.setDownloadBehavior"} ->
         [handled |-> TRUE, w |-> interceptLocal(w, message, cause)]
    [] message.method = "Target.setAutoAttach" ->
         IF message.sessionId = ""
         THEN [handled |-> TRUE,
               w |-> IF w.extensionConnection = 0 THEN w
                     ELSE send(w, "attachToTab", Undefined,
                               Continuation("attach", message, cause))]
         ELSE [handled |-> TRUE, w |-> forwardToExtension(w, message, cause)]
    [] OTHER -> [handled |-> FALSE, w |-> w]

\* Mutant of interceptCDPCommand: Target.setAutoAttach is simulated whether
\* or not the command carries a sessionId.
interceptCDPCommandAlwaysAttach(w, message, cause) ==
  CASE message.method \in {"Browser.getVersion", "Browser.setDownloadBehavior",
                           "Target.getTargetInfo"} ->
         [handled |-> TRUE, w |-> interceptLocal(w, message, cause)]
    [] message.method = "Target.setAutoAttach" ->
         [handled |-> TRUE,
          w |-> IF w.extensionConnection = 0 THEN w
                ELSE send(w, "attachToTab", Undefined,
                          Continuation("attach", message, cause))]
    [] OTHER -> [handled |-> FALSE, w |-> w]

(* CDPRelayServer._interceptCDPCommand, up to its first await.  The value  *)
(* is [handled, w]: handled is the boolean the function returns (TRUE also *)
(* when it leaves by an exception, which skips the forwarding too), w the  *)
(* state it leaves.                                                        *)
interceptCDPCommand(w, message, cause) ==
  CASE message.method \in {"Browser.getVersion", "Browser.setDownloadBehavior",
                           "Target.getTargetInfo"} ->
         [handled |-> TRUE, w |-> interceptLocal(w, message, cause)]
    [] message.method = "Target.setAutoAttach" ->
         IF message.sessionId = ""
         THEN \* this._extensionConnection!.send('attachToTab'): a TypeError
              \* when the connection is null
              [handled |-> TRUE,
               w |-> IF w.extensionConnection = 0 THEN w
                     ELSE send(w, "attachToTab", Undefined,
                               Continuation("attach", message, cause))]
         ELSE [handled |-> TRUE, w |-> forwardToExtension(w, message, cause)]
    [] OTHER -> [handled |-> FALSE, w |-> w]

\* Mutant of handlePlaywrightMessage: the check for a missing extension
\* connection is left to the code that uses the connection.
handlePlaywrightMessageNoCheck(w, message, cause) ==
  LET r == interceptCDPCommand(w, message, cause)
  IN IF r.handled THEN r.w ELSE forwardToExtension(r.w, message, cause)

\* Mutant of handlePlaywrightMessage: the `return` after a successful
\* interception is missing, so an intercepted command is forwarded as well.
handlePlaywrightMessageFallThrough(w, message, cause) ==
  IF w.extensionConnection = 0
  THEN sendToPlaywright(w,
         CDPResponse(message.id, "", "", Undefined, Undefined,
                     [message |-> "Extension not connected"]), cause)
  ELSE forwardToExtension(interceptCDPCommand(w, message, cause).w, message, cause)

(* CDPRelayServer._handlePlaywrightMessage, up to its first await, which   *)
(* is `await this._interceptCDPCommand(message)`: what _interceptCDPCommand *)
(* does before its own first await is done at once, and when it returns    *)
(* false the call of _forwardToExtension is the continuation of the await, *)
(* a microtask.                                                            *)
handlePlaywrightMessage(w, message, cause) ==
  IF w.extensionConnection = 0
  THEN sendToPlaywright(w,
         CDPResponse(message.id, "", "", Undefined, Undefined,
                     [message |-> "Extension not connected"]), cause)
  ELSE LET r == interceptCDPCommand(w, message, cause)
       IN IF r.handled THEN r.w
          ELSE [r.w EXCEPT
                  !.microtasks =
                     Append(@, [cont |-> Continuation("intercepted", message, cause),
                                outcome |-> "resolve", value |-> Undefined])]

\* Mutant of handleExtensionMessage: an event is relayed under the root
\* session, without the sessionId the extension gave.
handleExtensionMessageNoSession(w, method, params) ==
  CASE method = "forwardCDPEvent" ->
         sendToPlaywright(w,
           CDPResponse(0, "", params.method, params.params,
                       Undefined, Undefined), 0)
    [] method = "detachedFromTab" ->
         LET w1 == [w EXCEPT !.connectionInfo = Undefined]
             w2 == IF w1.extensionConnection = 0 THEN w1 ELSE close(w1)
         IN [w2 EXCEPT !.extensionConnection = 0]
    [] OTHER -> w

\* Mutant of handleExtensionMessage: on detachedFromTab the relay keeps the
\* connection and attaches again on its own.
handleExtensionMessageReattach(w, method, params) ==
  CASE method = "forwardCDPEvent" ->
         sendToPlaywright(w,
           CDPResponse(0, params.sessionId, params.method, params.params,
                       Undefined, Undefined), 0)
    [] method = "detachedFromTab" ->
         LET w1 == [w EXCEPT !.connectionInfo = Undefined]
         IN IF w1.extensionConnection = 0 THEN w1
            ELSE send(w1, "attachToTab", Undefined,
                      Continuation("attach", NoCommand, 0))
    [] OTHER -> w

(* CDPRelayServer._handleExtensionMessage                                  *)
handleExtensionMessage(w, method, params) ==
  CASE method = "forwardCDPEvent" ->
         sendToPlaywright(w,
           CDPResponse(0, params.sessionId, params.method, params.params,
                       Undefined, Undefined), 0)
    [] method = "detachedFromTab" ->
         LET w1 == [w EXCEPT !.connectionInfo = Undefined]
             w2 == IF w1.extensionConnection = 0 THEN w1 ELSE close(w1)
         IN [w2 EXCEPT !.extensionConnection = 0]
    [] OTHER -> w

(* A callback's resolve / reject: the promise is settled now and its       *)
(* continuation runs as a microtask.  `by` is the id of the frame that     *)
(* settled it.                                                             *)
settle(w, callback, outcome, value, by) ==
  [w EXCEPT
     !.microtasks = Append(@, [cont |-> callback, outcome |-> outcome, value |-> value]),
     !.settledNow = Append(@, [call |-> callback.call, kind |-> callback.kind,
                               message |-> callback.message,
                               cause |-> callback.cause, by |-> by,
                               outcome |-> outcome, value |-> value])]

\* Mutant of handleParsedMessage: a response settles the oldest pending
\* request (arrival order) instead of the one registered under its id.
handleParsedMessageInOrder(w, object) ==
  IF object.id # 0 /\ object.id \in DOMAIN w.callbacks
  THEN LET oldest == CHOOSE k \in DOMAIN w.callbacks :
                       \A j \in DOMAIN w.callbacks : k <= j
           callback == w.callbacks[oldest]
           w1 == [w EXCEPT !.callbacks =
                     [k \in (DOMAIN @) \ {oldest} |-> @[k]]]
       IN IF object.error # Undefined
          THEN settle(w1, callback, "reject",
                      [message |-> ErrorMessage(object.error)], object.id)
          ELSE settle(w1, callback, "resolve", object.result, object.id)
  ELSE IF object.id # 0
  THEN w
  ELSE handleExtensionMessage(w, object.method, object.params)

\* Mutant of handleParsedMessage: a response whose id matches no pending
\* request settles the oldest pending request.
handleParsedMessageStraySettles(w, object) ==
  IF object.id # 0 /\ DOMAIN w.callbacks # {}
  THEN LET id == IF object.id \in DOMAIN w.callbacks THEN object.id
                 ELSE CHOOSE k \in DOMAIN w.callbacks :
                        \A j \in DOMAIN w.callbacks : k <= j
           callback == w.callbacks[id]
           w1 == [w EXCEPT !.callbacks = [k \in (DOMAIN @) \ {id} |-> @[k]]]
       IN IF object.error # Undefined
          THEN settle(w1, callback, "reject",
                      [message |-> ErrorMessage(object.error)], object.id)
          ELSE settle(w1, callback, "resolve", object.result, object.id)
  ELSE IF object.id # 0
  THEN w
  ELSE handleExtensionMessage(w, object.method, object.params)

(* ExtensionConnection._handleParsedMessage                                *)
handleParsedMessage(w, object) ==
  IF object.id # 0 /\ object.id \in DOMAIN w.callbacks
  THEN LET callback == w.callbacks[object.id]
           w1 == [w EXCEPT !.callbacks =
                     [k \in (DOMAIN @) \ {object.id} |-> @[k]]]
       IN IF object.error # Undefined
          THEN settle(w1, callback, "reject",
                      [message |-> ErrorMessage(object.error)], object.id)
          ELSE settle(w1, callback, "resolve", object.result, object.id)
  ELSE IF object.id # 0
  THEN w
  ELSE handleExtensionMessage(w, object.method, object.params)

(* The code after an await, by the await it belongs to.                    *)
resume(w, task) ==
  CASE task.cont.kind = "forward" ->
         forwardSettled(w, task.cont, task.outcome, task.value)
    [] task.cont.kind = "attach" ->
         attachSettled(w, task.cont, task.outcome, task.value)
    [] task.cont.kind = "detach" ->
         detachSettled(w, task.cont, task.outcome, task.value)
    [] task.cont.kind = "intercepted" ->
         forwardToExtension(w, task.cont.message, task.cont.cause)

(* The microtask queue is drained, in order, when the callback returns.    *)
RECURSIVE runMicrotasks(_)
runMicrotasks(w) ==
  IF w.microtasks = << >> THEN w
  ELSE runMicrotasks(resume([w EXCEPT !.microtasks = Tail(@)], Head(w.microtasks)))

(* NativeMessagingHost, stdin 'data': every complete frame of the chunk is *)
(* parsed and handed to onMessage before the handler returns.              *)
RECURSIVE onData(_, _)
onData(w, frames) ==
  IF frames = << >> THEN w
  ELSE onData(handleParsedMessage(w, Head(frames)), Tail(frames))

\* The close frame of a socket the relay did not close.
NoCloseFrame == [code |-> 0, reason |-> "", sent |-> FALSE]

(* WebSocket.close(code, reason) of ws: an OPEN socket sends the close      *)
(* frame and is CLOSING until the handshake completes; on a socket that is *)
(* CLOSING or CLOSED the call does nothing.  An absent code is 0.          *)
closeSocket(w, ws, code, reason) ==
  IF w.readyState[ws] = "OPEN"
  THEN [w EXCEPT !.readyState[ws] = "CLOSING",
                 !.closeFrame[ws] = [code |-> code, reason |-> reason,
                                     sent |-> TRUE]]
  ELSE w

\* Mutant of acceptPlaywrightConnection: the previous socket is left open.
acceptPlaywrightConnectionKeepOld(w, ws) ==
  [w EXCEPT !.playwrightSocket = ws, !.readyState[ws] = "OPEN"]

(* The 'message' handler _acceptPlaywrightConnection registers on ws, up   *)
(* to its await.  The command gets the next serial number.                 *)
onMessage(w, ws, message) ==
  LET w1 == [w EXCEPT !.commands = Append(@, [ws |-> ws, responses |-> 0])]
  IN handlePlaywrightMessage(w1, message, Len(w1.commands))

(* ws emits the 'message' events of all frames of one chunk one after the  *)
(* other, before any promise continuation runs.                            *)
RECURSIVE onMessages(_, _, _)
onMessages(w, ws, messages) ==
  IF messages = << >> THEN w
  ELSE onMessages(onMessage(w, ws, Head(messages)), ws, Tail(messages))

\* startInProcessRelay: the path '/cdp/' + crypto.randomUUID() of this
\* process.
cdpPath == "/cdp/1b9d6bcd-bbfd-4b2d-9b5d-ab8dfbbd4bed"

\* Request URLs of WebSocket upgrades: the path, and URLs that differ from
\* it by a missing token, a query, a trailing slash.
Urls ==
  { cdpPath,
    "/cdp/",
    "/cdp/1b9d6bcd-bbfd-4b2d-9b5d-ab8dfbbd4bed?debug=1",
    "/cdp/1b9d6bcd-bbfd-4b2d-9b5d-ab8dfbbd4bed/" }

\* Mutant of verifyCDPPath: every URL is accepted.
verifyCDPPathAny(url) ==
  [url |-> url, res |-> TRUE, httpStatusCode |-> 0, message |-> ""]

(* CDPRelayServer._verifyCDPPath: the arguments of its callback.           *)
verifyCDPPath(url) ==
  IF url # cdpPath
  THEN [url |-> url, res |-> FALSE, httpStatusCode |-> 404,
        message |-> "Unknown path: " \o url]
  ELSE [url |-> url, res |-> TRUE, httpStatusCode |-> 0, message |-> ""]

(* CDPRelayServer._acceptPlaywrightConnection                              *)
acceptPlaywrightConnection(w, ws) ==
  LET old == w.playwrightSocket
      w1 == IF old # 0 /\ w.readyState[old] = "OPEN"
            THEN closeSocket(w, old, 1000, "New connection established")
            ELSE w
  IN [w1 EXCEPT !.playwrightSocket = ws, !.readyState[ws] = "OPEN"]

\* Mutant of onSocketClose: the handler does not check that the socket that
\* closed is the current one.
onSocketCloseAny(w, ws) ==
  [detachDebugger(w) EXCEPT !.playwrightSocket = 0]

(* The 'close' handler _acceptPlaywrightConnection registers on ws.        *)
onSocketClose(w, ws) ==
  IF w.playwrightSocket = ws
  THEN [detachDebugger(w) EXCEPT !.playwrightSocket = 0]
  ELSE w

(* CDPRelayServer.stop                                                     *)
stop(w) ==
  LET ws == w.playwrightSocket
      w1 == IF ws # 0 THEN closeSocket(w, ws, 0, "") ELSE w
  IN IF w1.extensionConnection = 0 THEN w1 ELSE close(w1)

----------------------------------------------------------------------------
(* The environment: the extension behind the native-messaging channel.     *)
(* It answers every request it was sent at most once, in any order, with   *)
(* a result or an error, and emits events and stray responses on its own.  *)

ProtocolResponse(id, method, params, result, error) ==
  [id |-> id, method |-> method, params |-> params, result |-> result,
   error |-> error]

\* RelayConnection._onCommand: what a request can be answered with.
Results(request) ==
  CASE request.method = "attachToTab" ->
         { [sessionId |-> "pw-tab-7", targetInfo |-> ti] : ti \in TargetInfos }
    [] request.method = "forwardCDPCommand" ->
         { [echo |-> request.params.method, request |-> request.id] }
    [] OTHER -> { Undefined }

Answers(request) ==
  { ProtocolResponse(request.id, "", Undefined, r, Undefined) : r \in Results(request) }
  \cup
  { ProtocolResponse(request.id, "", Undefined, Undefined, e) : e \in ExtensionErrors }

\* RelayConnection._onDebuggerEvent and _onDebuggerDetach.
Events ==
  { ProtocolResponse(0, "forwardCDPEvent",
      [sessionId |-> "pw-tab-7", method |-> "Page.loadEventFired",
       params |-> [timestamp |-> "t1"]], Undefined, Undefined),
    ProtocolResponse(0, "forwardCDPEvent",
      [sessionId |-> "child-1", method |-> "Runtime.consoleAPICalled",
       params |-> [type |-> "log"]], Undefined, Undefined),
    ProtocolResponse(0, "detachedFromTab",
      [tabId |-> "7", reason |-> "target_closed"], Undefined, Undefined) }

\* A response nobody waits for: a second answer to an answered request, or
\* an id that was never allocated.
Strays(reqs) ==
  { ProtocolResponse(id, "", Undefined, Undefined, Undefined) :
      id \in (1 .. (lastId + 1)) \ { r.id : r \in reqs } }

\* The chunks of at most n frames the extension can produce next, each with
\* the requests it leaves unanswered and the inputs (uns) the run has had.
RECURSIVE Chunks(_, _, _)
Chunks(n, reqs, uns) ==
  IF n = 0 THEN {}
  ELSE
    LET solicited ==
          UNION { { [frame |-> f, reqs |-> reqs \ {r}, uns |-> uns] :
                      f \in Answers(r) } : r \in reqs }
        spontaneous ==
          IF uns < MaxInputs
          THEN { [frame |-> f, reqs |-> reqs, uns |-> uns + 1] :
                   f \in Events \cup Strays(reqs) }
          ELSE {}
        first == solicited \cup spontaneous
    IN { [frames |-> << c.frame >>, reqs |-> c.reqs, uns |-> c.uns] : c \in first }
       \cup
       UNION { { [frames |-> << c.frame >> \o more.frames,
                  reqs |-> more.reqs, uns |-> more.uns] :
                   more \in Chunks(n - 1, c.reqs, c.uns) } : c \in first }

\* RelayConnection._onCommand, the debugger of the tab: a successful
\* attachToTab attaches it, a successful detachFromTab detaches it, and
\* chrome reports a detach of its own with detachedFromTab.  The value is
\* what is attached after the extension produced these frames, the first
\* frame with the id of an open request being the answer to it.
RECURSIVE debuggee(_, _, _)
debuggee(tab, reqs, frames) ==
  IF frames = << >> THEN tab
  ELSE
    LET f == Head(frames)
        answered == { r \in reqs : r.id = f.id }
        method == IF answered = {} THEN ""
                  ELSE (CHOOSE r \in answered : TRUE).method
        after == CASE f.method = "detachedFromTab" -> Undefined
                   [] method = "attachToTab" /\ f.error = Undefined -> f.result
                   [] method = "detachFromTab" /\ f.error = Undefined -> Undefined
                   [] OTHER -> tab
    IN debuggee(after, reqs \ answered, Tail(frames))

\* The inputs of the run so far.
Inputs ==
  Len(commands) + Cardinality({ ws \in Sockets : readyState[ws] # "NEW" })
  + unsolicited

\* The frames of a sequence, as a set.
Range(seq) == { seq[i] : i \in DOMAIN seq }

----------------------------------------------------------------------------
(* Actions: one per callback the event loop can run.                       *)

Callback(type, ws, message, frames) ==
  [type |-> type, ws |-> ws, message |-> message, frames |-> frames]

(* NativeMessagingHost constructor: an empty buffer, no frame length read. *)
(* log is what the decoder did: the messages it handed to onMessage and    *)
(* the writes it made to stdout.  frames, pending and cut belong to the    *)
(* peer: the frames it sends, the bytes of them not delivered yet, and     *)
(* where chunks have ended so far.                                         *)
NativeMessagingHost ==
  [buffer |-> << >>, frameLen |-> -1, log |-> << >>,
   frames |-> << >>, pending |-> << >>, cut |-> {}]

(* The extension before its first RelayConnection: no connection, no      *)
(* listener on chrome.debugger.onEvent and onDetach, no tab with the       *)
(* debugger attached.  last is what the step taken last did.               *)
Background ==
  [connections |-> << >>, onEvent |-> {}, onDetach |-> {}, attached |-> {},
   last |-> [step |-> "load", connection |-> 0, tabId |-> 0, method |-> "",
             outcome |-> "", value |-> Undefined, sent |-> << >>]]

(* BaseContextFactory after its constructor: _browserPromise is undefined  *)
(* (0), no browser was launched, no client session has asked for a         *)
(* context.  A session is at "idle" before createContext, then at          *)
(* "obtaining", "creating", "open", "closing", "closingBrowser", "done".   *)
BaseContextFactory ==
  [browserPromise |-> 0, browsers |-> << >>,
   sessions |-> [s \in 1 .. MaxSessions |-> [pc |-> "idle", browser |-> 0]]]

(* PersistentContextFactory before any createContext: of every session,   *)
(* where its createContext is ("idle", "launching", "waiting", "returned", *)
(* "closed", "failed"), the loop's i, the error of the launch that failed  *)
(* last and the error createContext threw.                                 *)
PersistentContextFactory ==
  [s \in 1 .. MaxClients |-> [pc |-> "idle", i |-> 0, error |-> "", thrown |-> ""]]

\* No tool call was handled and none is being handled.
NoCall ==
  [tool |-> "", params |-> Undefined, reply |-> "", isError |-> FALSE,
   thrown |-> "", routedTo |-> 0]

NoSwitch == [stage |-> "none", tool |-> "", params |-> Undefined, target |-> ""]

(* ProxyBackend and VSCodeProxyBackend after their constructors:           *)
(* _currentClient is undefined (0) and no client was created.  switch is   *)
(* the _setCurrentClient that is under way and the call it belongs to,     *)
(* selected the client the last browser_connect has answered for (0 when   *)
(* it failed or there was none), last the call handled last.               *)
ProxyBackend(kind) ==
  [kind |-> kind, initialized |-> FALSE, currentClient |-> 0, clients |-> << >>,
   connects |-> 0, switch |-> NoSwitch, selected |-> 0, last |-> NoCall]

(* NativeMessagingClient after its constructor: no transport (0; else the  *)
(* request whose handleChoice made it).  Of every acceptMCPConnection      *)
(* request: where its handling is ("idle", "opening", "waiting" with both  *)
(* listeners registered, "connecting", "done"), whether its dialog tab is  *)
(* open, the answer the user gave in its dialog, how its connect callback  *)
(* ended, and the values of accept it was answered with.  listeners are    *)
(* the requests whose messageListener and tabRemovedListener are           *)
(* registered, in the order of registration.                               *)
NativeMessagingClient ==
  [transport |-> 0,
   listeners |-> << >>,
   requests |-> [r \in 1 .. MaxRequests |->
                   [pc |-> "idle", tab |-> "none", answer |-> "",
                    connect |-> "", responses |-> << >>]]]

\* What a step of a Context did: the operation, the index of the tab that
\* closed or selected (for closeBrowserContext and dispose, the creation
\* whose close was under way at the call), the error the operation threw.
ContextStep(op, index, thrown) == [op |-> op, index |-> index, thrown |-> thrown]

(* Context after its constructor: _browserContextPromise is undefined (0;  *)
(* else the number of the creation it is the promise of), no close is      *)
(* under way (_closeBrowserContextPromise; closing is 0, else the creation *)
(* being closed), no tabs, no current tab (0).  creations are the calls of *)
(* the factory's createContext, owner the creation each page belongs to,   *)
(* waiting the newTab and ensureTab calls that await a creation, paging    *)
(* those that await browserContext.newPage(), selecting the pages whose    *)
(* bringToFront() a selectTab awaits.                                      *)
Context ==
  [browserContextPromise |-> 0, closing |-> 0, creations |-> << >>,
   tabs |-> << >>, currentTab |-> 0, owner |-> << >>,
   waiting |-> {}, paging |-> {}, selecting |-> {},
   last |-> ContextStep("new", 0, "")]

Idle ==
  /\ host = NativeMessagingHost
  /\ extension = Background
  /\ factory = BaseContextFactory
  /\ persistent = PersistentContextFactory
  /\ backend = ProxyBackend("proxy")
  /\ client = NativeMessagingClient
  /\ context = Context

(* CDPRelayServer and ExtensionConnection after their constructors.        *)
RelayInit ==
  /\ playwrightSocket = 0
  /\ extensionConnection = 1
  /\ connectionInfo = Undefined
  /\ lastId = 0
  /\ callbacks = [k \in {} |-> Undefined]
  /\ readyState = [ws \in Sockets |-> "NEW"]
  /\ closeFrame = [ws \in Sockets |-> NoCloseFrame]
  /\ exitCode = "none"
  /\ stopped = [called |-> FALSE, attached |-> FALSE, lastId |-> 0]
  /\ commandCount = [ws \in Sockets |-> 0]
  /\ requests = {}
  /\ unsolicited = 0
  /\ attachedTab = Undefined
  /\ now = Callback("constructor", 0, NoCommand, << >>)
  /\ out = << >>
  /\ written = << >>
  /\ settledNow = << >>
  /\ calls = << >>
  /\ commands = << >>
  /\ refusedFrom = 0

Init == RelayInit /\ Idle

\* The extension receives what the callback wrote.
Transmit == requests' = requests \cup Range(written')

(* A WebSocket upgrade that verifyClient accepts: the server completes the *)
(* handshake and emits 'connection' in the same callback: _onConnection.   *)
(* Sockets connect in the order of their numbers.                          *)
OnConnection ==
  /\ exitCode = "none"
  /\ Inputs < MaxInputs
  /\ \E ws \in Sockets, url \in Urls :
       /\ readyState[ws] = "NEW"
       /\ \A other \in Sockets : other < ws => readyState[other] # "NEW"
       /\ verifyCDPPath(url).res
       /\ now' = Callback("connection", ws, verifyCDPPath(url), << >>)
       /\ Install(acceptPlaywrightConnection(World, ws))
  /\ Transmit
  /\ UNCHANGED << others, stopped, commandCount, unsolicited, attachedTab, refusedFrom >>

(* A WebSocket upgrade that verifyClient refuses: the server answers with  *)
(* the status code and closes the TCP socket; no 'connection' is emitted.  *)
(* Upgrades arrive while the run has inputs left, be they accepted or not. *)
OnUpgradeRefused ==
  /\ exitCode = "none"
  /\ Inputs < MaxInputs
  /\ \E url \in Urls :
       /\ ~verifyCDPPath(url).res
       /\ now' = Callback("upgrade", 0, verifyCDPPath(url), << >>)
       /\ Install(World)
  /\ Transmit
  /\ UNCHANGED << others, stopped, commandCount, unsolicited, attachedTab, refusedFrom >>

(* ws 'message' of a consumer socket, which still delivers while the       *)
(* closing handshake of a close() by the relay is under way.  The consumer *)
(* numbers its commands 1, 2, ...                                          *)
OnPlaywrightMessage ==
  /\ exitCode = "none"
  /\ Inputs < MaxInputs
  /\ \E ws \in Sockets, in \in ConsumerInputs :
       /\ readyState[ws] \in {"OPEN", "CLOSING"}
       /\ LET message == CDPCommand(commandCount[ws] + 1, in.sessionId,
                                    in.method, in.params)
              cause == Len(commands) + 1
          IN /\ commandCount' = [commandCount EXCEPT ![ws] = @ + 1]
             /\ refusedFrom' = IF refusedFrom = 0 /\ extensionConnection = 0
                               THEN cause ELSE refusedFrom
             /\ now' = Callback("message", ws, message, << >>)
             /\ Install(runMicrotasks(onMessage(World, ws, message)))
  /\ Transmit
  /\ UNCHANGED << others, stopped, unsolicited, attachedTab >>

(* ws 'message' events of a consumer socket for a chunk that carries more  *)
(* than one frame.                                                         *)
OnPlaywrightMessages ==
  /\ exitCode = "none"
  /\ \E ws \in Sockets, n \in 2 .. MaxChunk :
       /\ readyState[ws] \in {"OPEN", "CLOSING"}
       /\ Inputs + n <= MaxInputs
       /\ \E ins \in [1 .. n -> ConsumerInputs] :
            LET messages == [i \in 1 .. n |->
                               CDPCommand(commandCount[ws] + i, ins[i].sessionId,
                                          ins[i].method, ins[i].params)]
            IN /\ commandCount' = [commandCount EXCEPT ![ws] = @ + n]
               /\ refusedFrom' = IF refusedFrom = 0 /\ extensionConnection = 0
                                 THEN Len(commands) + 1 ELSE refusedFrom
               /\ now' = Callback("messages", ws, NoCommand, messages)
               /\ Install(runMicrotasks(onMessages(World, ws, messages)))
  /\ Transmit
  /\ UNCHANGED << others, stopped, unsolicited, attachedTab >>

(* ws 'close' of a consumer socket: the consumer went away, or the closing *)
(* handshake of a close() by the relay completed.                          *)
OnSocketClose ==
  /\ exitCode = "none"
  /\ \E ws \in Sockets :
       /\ readyState[ws] \in {"OPEN", "CLOSING"}
       /\ now' = Callback("close", ws, NoCommand, << >>)
       /\ Install(runMicrotasks(
            onSocketClose([World EXCEPT !.readyState[ws] = "CLOSED"], ws)))
  /\ Transmit
  /\ UNCHANGED << others, stopped, commandCount, unsolicited, attachedTab, refusedFrom >>

(* CDPRelayServer.stop, called by the embedder.                            *)
Stop ==
  /\ exitCode = "none"
  /\ now' = Callback("stop", 0, NoCommand, << >>)
  /\ Install(stop(World))
  /\ stopped' = [called |-> TRUE,
                  attached |-> \/ stopped.attached
                               \/ /\ playwrightSocket # 0
                                  /\ connectionInfo # Undefined
                                  /\ connectionInfo = attachedTab
                                  /\ \A r \in requests :
                                       r.method # "detachFromTab",
                  lastId |-> lastId]
  /\ Transmit
  /\ UNCHANGED << others, commandCount, unsolicited, attachedTab, refusedFrom >>

(* stdin 'data': a chunk of frames from the extension.                     *)
OnStdinData ==
  /\ exitCode = "none"
  /\ \E chunk \in Chunks(MaxChunk, requests, Inputs) :
       /\ unsolicited' = unsolicited + (chunk.uns - Inputs)
       /\ now' = Callback("data", 0, NoCommand, chunk.frames)
       /\ Install(runMicrotasks(onData(World, chunk.frames)))
       /\ requests' = chunk.reqs \cup Range(written')
       /\ attachedTab' = debuggee(attachedTab, requests, chunk.frames)
  /\ UNCHANGED << others, stopped, commandCount, refusedFrom >>

(* stdin 'end': process.exit(0).                                           *)
OnStdinEnd ==
  /\ exitCode = "none"
  /\ exitCode' = "0"
  /\ now' = Callback("end", 0, NoCommand, << >>)
  /\ out' = << >>
  /\ written' = << >>
  /\ settledNow' = << >>
  /\ UNCHANGED << playwrightSocket, extensionConnection, connectionInfo, lastId,
                  callbacks, readyState, closeFrame, stopped, commandCount, requests, unsolicited,
                  attachedTab, calls, commands, refusedFrom, others >>

Next ==
  \/ OnConnection
  \/ OnUpgradeRefused
  \/ OnPlaywrightMessage
  \/ OnPlaywrightMessages
  \/ OnSocketClose
  \/ Stop
  \/ OnStdinData
  \/ OnStdinEnd

Spec == Init /\ [][Next]_vars

----------------------------------------------------------------------------
(* Properties.                                                             *)

\* The consumer command with this serial number was sent by a socket that
\* is still open and still the relay's consumer.
ConsumerConnected(serial) ==
  /\ readyState[commands[serial].ws] = "OPEN"
  /\ playwrightSocket = commands[serial].ws

\* C1: every promise of send() is settled only by the response frame whose
\* id is the id allocated to that call, whatever the order of the responses:
\* rejected with the frame's error message if the frame carries an error,
\* else resolved with the frame's result; nothing but a frame from the
\* extension settles a promise.
C1_Correlation ==
  /\ now.type # "data" => settledNow = << >>
  /\ \A i \in DOMAIN settledNow :
       LET s == settledNow[i]
       IN /\ s.by = s.call
          /\ \E k \in DOMAIN now.frames :
               LET f == now.frames[k]
               IN /\ f.id = s.call
                  /\ IF f.error # Undefined
                     THEN /\ s.outcome = "reject"
                          /\ s.value = [message |-> ErrorMessage(f.error)]
                     ELSE /\ s.outcome = "resolve"
                          /\ s.value = f.result

\* A response overtook an older request: a call was settled while a call
\* with a smaller id is still pending.
C1_Witness ==
  \E i \in DOMAIN settledNow :
    \E k \in DOMAIN callbacks : k < settledNow[i].call

\* C2: once the extension channel is closed (the relay dropped the
\* connection through close()) or terminated (stdin ended), no send() is
\* pending any more: every pending promise was rejected and the table is
\* empty.
C2_ClosedRejectsAll ==
  (extensionConnection = 0 \/ exitCode = "0") => DOMAIN callbacks = {}

\* C3: once the extension connection is dropped, no command forwarded for a
\* consumer that is still connected is left without a response.
C3_DroppedAnswersForwarded ==
  extensionConnection = 0 =>
    \A id \in DOMAIN callbacks :
      callbacks[id].kind = "forward" => ~ConsumerConnected(callbacks[id].cause)

\* The sends made for the consumer command with this serial number.
CallsFor(serial) == { id \in DOMAIN calls : calls[id].cause = serial }

\* C4: a command the relay forwarded to the extension was sent to it once,
\* and at most one response carrying an id was sent to the consumer for it.
C4_AtMostOnce ==
  \A id \in DOMAIN calls :
    calls[id].kind = "forward" =>
      /\ CallsFor(calls[id].cause) = {id}
      /\ commands[calls[id].cause].responses <= 1

\* A forwarded command was answered, and its response reached the consumer.
C4_Witness ==
  \E i \in DOMAIN settledNow :
    /\ settledNow[i].kind = "forward"
    /\ commands[settledNow[i].cause].responses = 1
    /\ \E j \in DOMAIN out : out[j].cause = settledNow[i].cause /\ out[j].to # 0

\* C5: whenever a request made for a consumer command is rejected, a
\* response with the command's id and sessionId and with error.message is
\* passed to the consumer in the same callback.
C5_FailureAnswered ==
  /\ \A i \in DOMAIN settledNow :
       LET s == settledNow[i]
       IN (s.outcome = "reject" /\ s.kind \in {"forward", "attach"}) =>
            \E j \in DOMAIN out :
              /\ out[j].cause = s.cause
              /\ out[j].message.id = s.message.id
              /\ out[j].message.sessionId = s.message.sessionId
              /\ out[j].message.error = [message |-> s.value.message]
  /\ now.type = "message" =>
       \A j \in DOMAIN out :
         out[j].message.error # Undefined =>
           /\ out[j].message.id = now.message.id
           /\ out[j].message.sessionId = now.message.sessionId

NotConnected(id) ==
  CDPResponse(id, "", "", Undefined, Undefined,
              [message |-> "Extension not connected"])

\* C6: a consumer command received while the relay has no extension
\* connection is answered in the same callback with exactly the response
\* {id, error: {message: "Extension not connected"}}, on the socket it came
\* from if that socket is open; nothing is written to the extension and no
\* request is registered for it, then or later.
C6_NotConnected ==
  /\ [][(now'.type = "message" /\ extensionConnection = 0) =>
          /\ written' = << >>
          /\ callbacks' = callbacks
          /\ lastId' = lastId
          /\ calls' = calls
          /\ Len(out') = 1
          /\ out'[1].message = NotConnected(now'.message.id)
          /\ out'[1].cause = Len(commands')
          /\ readyState[now'.ws] = "OPEN" => out'[1].to = now'.ws]_vars
  /\ [](refusedFrom # 0 =>
          \A id \in DOMAIN calls : calls[id].cause < refusedFrom)

\* A root Target.setAutoAttach arrived on an open socket after the extension
\* connection was dropped, and the error went to that socket.
C6_Witness ==
  /\ now.type = "message"
  /\ now.message.method = "Target.setAutoAttach"
  /\ now.message.sessionId = ""
  /\ refusedFrom # 0
  /\ extensionConnection = 0
  /\ Len(out) = 1
  /\ out[1].to = now.ws
  /\ out[1].to # 0

\* C7: in every relay state a Browser.getVersion command is answered with
\* the static version descriptor under the command's id, and nothing is
\* written to the extension.
C7_GetVersion ==
  (now.type = "message" /\ now.message.method = "Browser.getVersion") =>
    /\ written = << >>
    /\ Len(out) = 1
    /\ out[1].message =
         CDPResponse(now.message.id, "", "", Undefined,
           [protocolVersion |-> "1.3", product |-> "Chrome/Extension-Bridge",
            userAgent |-> "CDP-Bridge-Server/1.0.0"], Undefined)

\* C8: handling Browser.getVersion, Browser.setDownloadBehavior or
\* Target.getTargetInfo writes nothing to the extension, leaves the pending
\* table, the id counter and the extension's open requests unchanged, and
\* passes exactly one message to the consumer: a response with the
\* command's id.
C8_LocalMethods ==
  [][(/\ now'.type = "message"
      /\ now'.message.method \in {"Browser.getVersion",
                                  "Browser.setDownloadBehavior",
                                  "Target.getTargetInfo"}) =>
       /\ written' = << >>
       /\ callbacks' = callbacks
       /\ lastId' = lastId
       /\ calls' = calls
       /\ requests' = requests
       /\ extensionConnection' = extensionConnection
       /\ Len(out') = 1
       /\ out'[1].message.id = now'.message.id
       /\ out'[1].message.method = ""]_vars

\* Target.getTargetInfo was answered from the cache while a request to the
\* extension was pending.
C8_Witness ==
  /\ now.type = "message"
  /\ now.message.method = "Target.getTargetInfo"
  /\ extensionConnection = 1
  /\ DOMAIN callbacks # {}
  /\ Len(out) = 1
  /\ out[1].message.error = Undefined

\* The acknowledgement of a command: {id}.
Ack(id) == CDPResponse(id, "", "", Undefined, Undefined, Undefined)

\* C9: a Target.setAutoAttach without sessionId, received with an extension
\* connection, makes the relay write one attachToTab request and nothing to
\* the consumer; when that request resolves, the result is stored as
\* ConnectionInfo and the consumer is passed the Target.attachedToTarget
\* event built from it and, right after the event, the acknowledgement with
\* the command's id.  No acknowledgement of such a command is passed without
\* the event just before it, and the command is never forwarded as
\* forwardCDPCommand.
C9_RootAutoAttach ==
  /\ (/\ now.type = "message"
      /\ now.message.method = "Target.setAutoAttach"
      /\ now.message.sessionId = ""
      /\ refusedFrom = 0) =>
       /\ out = << >>
       /\ written = << [id |-> lastId, method |-> "attachToTab",
                        params |-> Undefined, sessionId |-> ""] >>
       /\ calls[lastId] = [kind |-> "attach", cause |-> Len(commands)]
  /\ \A i \in DOMAIN settledNow :
       LET s == settledNow[i]
       IN (s.kind = "attach" /\ s.outcome = "resolve") =>
            /\ \E j \in DOMAIN out :
                 /\ j + 1 \in DOMAIN out
                 /\ out[j].message = attachedToTarget(s.value)
                 /\ out[j].cause = s.cause
                 /\ out[j + 1].message = Ack(s.message.id)
                 /\ out[j + 1].cause = s.cause
                 /\ out[j + 1].to = out[j].to
            /\ (\A k \in DOMAIN settledNow :
                  (settledNow[k].kind = "attach" /\ settledNow[k].outcome = "resolve")
                    => k <= i)
               => connectionInfo = s.value
  /\ \A j \in DOMAIN out :
       (/\ out[j].message.id # 0
        /\ \E id \in DOMAIN calls :
             calls[id].kind = "attach" /\ calls[id].cause = out[j].cause) =>
         /\ j - 1 \in DOMAIN out
         /\ out[j - 1].message.method = "Target.attachedToTarget"
         /\ out[j - 1].cause = out[j].cause
  /\ \A a \in DOMAIN calls, b \in DOMAIN calls :
       calls[a].kind = "attach" => ~(calls[b].kind = "forward"
                                     /\ calls[b].cause = calls[a].cause)

\* An attachToTab made for a root Target.setAutoAttach resolved, and the
\* event and the acknowledgement reached the consumer.
C9_Witness ==
  /\ Len(settledNow) = 1
  /\ settledNow[1].kind = "attach"
  /\ settledNow[1].outcome = "resolve"
  /\ Len(out) = 2
  /\ out[1].to # 0
  /\ out[2].message = Ack(settledNow[1].message.id)
  /\ connectionInfo = settledNow[1].value

IsEvent(entry) == entry.message.id = 0

\* C10: a Target.setAutoAttach that carries a sessionId, received with an
\* extension connection, is written to the extension as one
\* forwardCDPCommand with the command's sessionId, method and params; it
\* writes no attachToTab, passes no event to the consumer and leaves
\* ConnectionInfo unchanged, also when its response arrives.
C10_NestedAutoAttach ==
  /\ [][(/\ now'.type = "message"
         /\ now'.message.method = "Target.setAutoAttach"
         /\ now'.message.sessionId # "") =>
          /\ connectionInfo' = connectionInfo
          /\ \A j \in DOMAIN out' : ~IsEvent(out'[j])
          /\ \A k \in DOMAIN written' : written'[k].method # "attachToTab"
          /\ extensionConnection # 0 =>
               /\ out' = << >>
               /\ written' =
                    << [id |-> lastId + 1, method |-> "forwardCDPCommand",
                        params |-> [sessionId |-> now'.message.sessionId,
                                    method |-> "Target.setAutoAttach",
                                    params |-> now'.message.params],
                        sessionId |-> ""] >>]_vars
  /\ [][(/\ now'.type = "data"
         /\ \E i \in DOMAIN settledNow' :
              /\ settledNow'[i].kind = "forward"
              /\ settledNow'[i].message.method = "Target.setAutoAttach"
         /\ \A i \in DOMAIN settledNow' : settledNow'[i].kind # "attach"
         /\ \A f \in Range(now'.frames) : f.method # "detachedFromTab") =>
          connectionInfo' = connectionInfo]_vars
  /\ [](\A i \in DOMAIN settledNow :
          (/\ settledNow[i].kind = "forward"
           /\ settledNow[i].message.method = "Target.setAutoAttach") =>
            /\ settledNow[i].message.sessionId # ""
            /\ \A j \in DOMAIN out :
                 out[j].cause = settledNow[i].cause => ~IsEvent(out[j]))

\* A nested Target.setAutoAttach was forwarded while a target was attached.
C10_Witness ==
  /\ now.type = "message"
  /\ now.message.method = "Target.setAutoAttach"
  /\ now.message.sessionId # ""
  /\ connectionInfo # Undefined
  /\ Len(written) = 1
  /\ written[1].method = "forwardCDPCommand"

\* C11: Target.getTargetInfo, received with an extension connection, returns
\* the targetInfo held in ConnectionInfo, and in every state ConnectionInfo
\* is the result of the most recent successful attachToTab while the
\* debugger is attached, and cleared (so that the result is undefined) while
\* no target is attached and the relay has its extension connection.
C11_CacheCoherent ==
  /\ [][(/\ now'.type = "message"
         /\ now'.message.method = "Target.getTargetInfo"
         /\ extensionConnection # 0) =>
          /\ Len(out') = 1
          /\ out'[1].message.error = Undefined
          /\ out'[1].message.result =
               IF connectionInfo = Undefined THEN Undefined
               ELSE connectionInfo.targetInfo]_vars
  /\ []((connectionInfo # Undefined /\ attachedTab # Undefined) =>
          connectionInfo = attachedTab)
  /\ []((attachedTab = Undefined /\ extensionConnection # 0) =>
          connectionInfo = Undefined)

\* The consumer commands the callback that ran last received.
Received ==
  CASE now.type = "message" -> << now.message >>
    [] now.type = "messages" -> now.frames
    [] OTHER -> << >>

\* C12: in every state in which the relay holds no extension connection,
\* ConnectionInfo is cleared.
C12_ClearedWithoutExtension ==
  extensionConnection = 0 => connectionInfo = Undefined

Latest ==
  IF \A ws \in Sockets : readyState[ws] = "NEW" THEN 0
  ELSE CHOOSE ws \in Sockets :
         /\ readyState[ws] # "NEW"
         /\ \A other \in Sockets : readyState[other] # "NEW" => other <= ws

\* C14: when a consumer connects while the current consumer socket is open,
\* that socket is closed with code 1000 and reason "New connection
\* established" and the new socket becomes the current one, which it is
\* until it closes or is replaced; and whatever the relay sends from then
\* on goes to no socket but the one accepted last.
C14_SecondConsumer ==
  /\ [][(/\ now'.type = "connection"
         /\ playwrightSocket # 0
         /\ readyState[playwrightSocket] = "OPEN") =>
          /\ readyState'[playwrightSocket] = "CLOSING"
          /\ closeFrame'[playwrightSocket] =
               [code |-> 1000, reason |-> "New connection established",
                sent |-> TRUE]
          /\ playwrightSocket' = now'.ws
          /\ readyState'[now'.ws] = "OPEN"]_vars
  /\ [](\A ws \in Sockets : readyState[ws] = "OPEN" => playwrightSocket = ws)
  /\ [](\A j \in DOMAIN out : out[j].to \in {0, Latest})
  /\ []((now.type = "message" /\ now.ws = Latest /\ readyState[now.ws] = "OPEN") =>
          \A j \in DOMAIN out : out[j].to = now.ws)

\* The second consumer replaced the first, and a command it sent afterwards
\* was answered on its socket.
C14_Witness ==
  /\ now.type = "message"
  /\ now.ws = 2
  /\ closeFrame[1].code = 1000
  /\ playwrightSocket = 2
  /\ Len(out) = 1
  /\ out[1].to = 2
  /\ out[1].message.id = now.message.id

\* C15: between callbacks the current consumer socket is null or the
\* connection accepted last, and is this connection right after it was
\* accepted; no other connection is open; and the close event of a socket
\* that is not the current one changes nothing in the relay.
C15_AtomicSwap ==
  /\ [](playwrightSocket \in {0, Latest})
  /\ [](now.type = "connection" => (playwrightSocket = now.ws /\ now.ws = Latest))
  /\ [](\A ws \in Sockets :
          readyState[ws] = "OPEN" => (ws = Latest /\ playwrightSocket = ws))
  /\ [][(now'.type = "close" /\ now'.ws # playwrightSocket) =>
          /\ playwrightSocket' = playwrightSocket
          /\ connectionInfo' = connectionInfo
          /\ extensionConnection' = extensionConnection
          /\ written' = << >>]_vars

\* The replaced socket reported its close while the newer one was current.
C15_Witness ==
  /\ now.type = "close"
  /\ now.ws = 1
  /\ closeFrame[1].code = 1000
  /\ playwrightSocket = 2
  /\ readyState[2] = "OPEN"

\* C16: when the current consumer socket closes while the relay has an
\* extension connection, the same callback writes one detachFromTab request
\* and leaves ConnectionInfo cleared and no current consumer; and a
\* rejection of that request changes nothing in the relay: the process
\* keeps running.
C16_DetachOnClose ==
  /\ [][(/\ now'.type = "close"
         /\ now'.ws = playwrightSocket
         /\ extensionConnection # 0) =>
          /\ written' = << [id |-> lastId + 1, method |-> "detachFromTab",
                            params |-> [empty |-> TRUE], sessionId |-> ""] >>
          /\ connectionInfo' = Undefined
          /\ playwrightSocket' = 0
          /\ out' = << >>]_vars
  /\ [][(/\ now'.type = "data"
         /\ \E i \in DOMAIN settledNow' :
              settledNow'[i].kind = "detach" /\ settledNow'[i].outcome = "reject") =>
          /\ exitCode' = exitCode
          /\ playwrightSocket' = playwrightSocket]_vars

\* C17: stop() leaves the consumer socket closing or closed and the relay
\* without extension connection; and once the shutdown is complete (stop()
\* was called and every consumer socket has closed), a stop() that was
\* called while a target was attached has been followed by a detachFromTab
\* request to the extension.
C17_StopDetaches ==
  /\ [][now'.type = "stop" =>
          /\ extensionConnection' = 0
          /\ playwrightSocket # 0 =>
               readyState'[playwrightSocket] \in {"CLOSING", "CLOSED"}]_vars
  /\ []((/\ stopped.attached
          /\ \A ws \in Sockets : readyState[ws] \in {"NEW", "CLOSED"}) =>
          \E id \in DOMAIN calls :
            id > stopped.lastId /\ calls[id].kind = "detach")

\* C18: the requests the relay writes to the extension for consumer commands
\* (forwardCDPCommand and attachToTab) are written in the order in which
\* the relay received the commands: of two such requests, the one made for
\* the earlier command has the smaller id, ids being allocated in the order
\* of writing.
C18_SendOrder ==
  \A a \in DOMAIN calls, b \in DOMAIN calls :
    (/\ calls[a].kind \in {"forward", "attach"}
     /\ calls[b].kind \in {"forward", "attach"}
     /\ calls[a].cause < calls[b].cause) => a < b

IsForwardCDPEvent(frame) == frame.id = 0 /\ frame.method = "forwardCDPEvent"

IsUnprompted(entry) == entry.cause = 0

\* C19: the messages a callback passes to the consumer without a consumer
\* command as their cause are exactly the forwardCDPEvent frames the
\* callback received from the extension, one message per frame and in the
\* order of the frames, each as {sessionId, method, params} with the values
\* of the frame, and each sent on the current consumer socket if it is open.
C19_EventsRelayed ==
  LET events == IF now.type = "data"
                THEN SelectSeq(now.frames, IsForwardCDPEvent) ELSE << >>
      relayed == SelectSeq(out, IsUnprompted)
  IN /\ Len(relayed) = Len(events)
     /\ \A i \in DOMAIN relayed :
          /\ relayed[i].message =
               CDPResponse(0, events[i].params.sessionId, events[i].params.method,
                           events[i].params.params, Undefined, Undefined)
          /\ relayed[i].to =
               IF playwrightSocket # 0 /\ readyState[playwrightSocket] = "OPEN"
               THEN playwrightSocket ELSE 0

\* Two different events arrived in one chunk and reached the consumer in
\* the order of arrival, with no command pending.
C19_Witness ==
  /\ now.type = "data"
  /\ Len(now.frames) = 2
  /\ commands = << >>
  /\ Len(out) = 2
  /\ out[1].to # 0
  /\ out[2].to # 0
  /\ out[1].message.method = "Runtime.consoleAPICalled"
  /\ out[1].message.sessionId = "child-1"
  /\ out[2].message.method = "Page.loadEventFired"

----------------------------------------------------------------------------
(* NativeMessagingHost at byte level: a frame is a 4-byte little-endian    *)
(* byte length followed by that many bytes of JSON text.  Bytes are the    *)
(* numbers 0 .. 255, a buffer is a sequence of bytes.                      *)

\* Buffer.writeUInt32LE(n, 0) on Buffer.alloc(4)
writeUInt32LE(n) ==
  << n % 256, (n \div 256) % 256, (n \div 65536) % 256, (n \div 16777216) % 256 >>

\* Buffer.writeUInt32BE, the other byte order.
writeUInt32BE(n) ==
  << (n \div 16777216) % 256, (n \div 65536) % 256, (n \div 256) % 256, n % 256 >>

\* buffer.readUInt32LE(0)
readUInt32LE(buffer) ==
  buffer[1] + 256 * buffer[2] + 65536 * buffer[3] + 16777216 * buffer[4]

\* The report the decoder makes of a SyntaxError of JSON.parse.
ParseFailure(reason) == [error |-> "Failed to parse message: " \o reason]

\* The messages the model puts in frames: a response, and an event whose
\* text has a character of two bytes.
Messages == { [id |-> 1], [method |-> "é"] }

\* Buffer.from(JSON.stringify(message)): the UTF-8 bytes of the JSON text.
stringify(message) ==
  CASE message = [id |-> 1] ->
         \* {"id":1}
         << 123, 34, 105, 100, 34, 58, 49, 125 >>
    [] message = [method |-> "é"] ->
         \* {"method":"é"}
         << 123, 34, 109, 101, 116, 104, 111, 100, 34, 58, 34, 195, 169, 34, 125 >>
    [] message = ParseFailure("Unexpected end of JSON input") ->
         \* {"error":"Failed to parse message: Unexpected end of JSON input"}
         << 123, 34, 101, 114, 114, 111, 114, 34, 58, 34, 70, 97, 105, 108,
            101, 100, 32, 116, 111, 32, 112, 97, 114, 115, 101, 32, 109, 101,
            115, 115, 97, 103, 101, 58, 32, 85, 110, 101, 120, 112, 101, 99,
            116, 101, 100, 32, 101, 110, 100, 32, 111, 102, 32, 74, 83, 79, 78,
            32, 105, 110, 112, 117, 116, 34, 125 >>
    [] OTHER ->
         \* {"error":"Failed to parse message: invalid JSON"}
         << 123, 34, 101, 114, 114, 111, 114, 34, 58, 34, 70, 97, 105, 108,
            101, 100, 32, 116, 111, 32, 112, 97, 114, 115, 101, 32, 109, 101,
            115, 115, 97, 103, 101, 58, 32, 105, 110, 118, 97, 108, 105, 100,
            32, 74, 83, 79, 78, 34, 125 >>

\* JSON.parse(messageBuffer.toString()): the value, or the message of the
\* SyntaxError it throws.  The empty text and an unclosed array end too
\* early; the message for any other text depends on the text.
parse(bytes) ==
  CASE bytes = << 123, 34, 105, 100, 34, 58, 49, 125 >> ->
         [ok |-> TRUE, value |-> [id |-> 1]]
    [] bytes = << 123, 34, 109, 101, 116, 104, 111, 100, 34, 58, 34, 195, 169,
                  34, 125 >> ->
         [ok |-> TRUE, value |-> [method |-> "é"]]
    [] bytes = << >> \/ bytes = << 91 >> ->
         [ok |-> FALSE, value |-> "Unexpected end of JSON input"]
    [] OTHER ->
         [ok |-> FALSE, value |-> "invalid JSON"]

\* Mutant of sendMessage: the length is written in big-endian order.
sendMessageBigEndian(message) ==
  writeUInt32BE(Len(stringify(message))) \o stringify(message)

(* NativeMessagingHost.sendMessage: the bytes of its one stdout.write.     *)
sendMessage(message) ==
  writeUInt32LE(Len(stringify(message))) \o stringify(message)

\* buffer.subarray(n)
subarray(buffer, n) == SubSeq(buffer, n + 1, Len(buffer))

\* Mutant of frame: a frame that fails to parse empties the buffer.
frameDropsRest(h) ==
  LET messageBuffer == SubSeq(h.buffer, 1, h.frameLen)
      h1 == [h EXCEPT !.buffer = subarray(@, h.frameLen), !.frameLen = -1]
      message == parse(messageBuffer)
  IN IF message.ok
     THEN [h1 EXCEPT !.log = Append(@, [type |-> "onMessage",
                                        message |-> message.value])]
     ELSE [h1 EXCEPT !.buffer = << >>,
                     !.log = Append(@, [type |-> "write",
                              bytes |-> sendMessage(ParseFailure(message.value))])]

(* The stdin 'data' handler, lines 43-53: the body of a frame whose bytes  *)
(* are all in the buffer is cut off, parsed and handed to onMessage; a     *)
(* failure is reported with sendMessage; the frame length is reset.        *)
frame(h) ==
  LET messageBuffer == SubSeq(h.buffer, 1, h.frameLen)
      h1 == [h EXCEPT !.buffer = subarray(@, h.frameLen), !.frameLen = -1]
      message == parse(messageBuffer)
  IN IF message.ok
     THEN [h1 EXCEPT !.log = Append(@, [type |-> "onMessage",
                                        message |-> message.value])]
     ELSE [h1 EXCEPT !.log = Append(@, [type |-> "write",
                              bytes |-> sendMessage(ParseFailure(message.value))])]

(* The stdin 'data' handler, its while loop.                               *)
RECURSIVE drain(_)
drain(h) ==
  IF Len(h.buffer) = 0 THEN h
  ELSE IF h.frameLen = -1 /\ Len(h.buffer) < 4 THEN h
  ELSE
    LET h1 == IF h.frameLen = -1
              THEN [h EXCEPT !.frameLen = readUInt32LE(h.buffer),
                             !.buffer = subarray(@, 4)]
              ELSE h
    IN IF Len(h1.buffer) < h1.frameLen THEN h1 ELSE drain(frame(h1))

\* Mutant of onChunk: every chunk is decoded on its own, with nothing kept
\* of the chunks before it.
onChunkAlone(h, chunk) ==
  drain([h EXCEPT !.buffer = chunk, !.frameLen = -1])

(* The stdin 'data' handler.                                               *)
onChunk(h, chunk) ==
  drain([h EXCEPT !.buffer = @ \o chunk])

----------------------------------------------------------------------------
(* The frame decoder fed with a byte stream in chunks.                     *)

\* The frames of the peer: a message written by sendMessage, or a length
\* prefix followed by a payload that is not JSON: nothing, or "[".
Frames ==
  { [kind |-> "message", value |-> m] : m \in Messages }
  \cup { [kind |-> "raw", value |-> payload] : payload \in { << >>, << 91 >> } }

Bytes(f) ==
  IF f.kind = "message" THEN sendMessage(f.value)
  ELSE writeUInt32LE(Len(f.value)) \o f.value

RECURSIVE Stream(_)
Stream(frames) ==
  IF frames = << >> THEN << >> ELSE Bytes(Head(frames)) \o Stream(Tail(frames))

\* Where the chunk that was decoded last ended: inside a length prefix,
\* between prefix and payload, inside a payload, or at the end of a frame.
Cut(h) ==
  CASE h.frameLen = -1 /\ Len(h.buffer) > 0 -> "prefix"
    [] h.frameLen = -1 -> "frame"
    [] Len(h.buffer) = 0 -> "header"
    [] OTHER -> "payload"

InitCodec ==
  /\ RelayInit
  /\ extension = Background
  /\ factory = BaseContextFactory
  /\ persistent = PersistentContextFactory
  /\ backend = ProxyBackend("proxy")
  /\ client = NativeMessagingClient
  /\ context = Context
  /\ \E n \in 1 .. MaxFrames :
       \E frames \in [1 .. n -> Frames] :
         host = [NativeMessagingHost EXCEPT
                   !.frames = frames, !.pending = Stream(frames)]

(* stdin 'data' with the next bytes of the stream, as many as the pipe     *)
(* happens to deliver.                                                     *)
OnStdinChunk ==
  /\ \E n \in 1 .. Len(host.pending) :
       LET h == onChunk(host, SubSeq(host.pending, 1, n))
       IN host' = [h EXCEPT
                     !.pending = subarray(@, n),
                     !.cut = IF n = Len(host.pending) THEN @ ELSE @ \cup {Cut(h)}]
  /\ UNCHANGED << vars, extension, factory, persistent, backend, client, context >>

NextCodec == OnStdinChunk

SpecCodec == InitCodec /\ [][NextCodec]_<< vars, others >>

\* The bytes of the stream delivered so far.
Fed ==
  SubSeq(Stream(host.frames), 1, Len(Stream(host.frames)) - Len(host.pending))

\* C21: however the bytes delivered so far were split into chunks, the
\* decoder has made the same calls of onMessage and the same error reports,
\* in the same order, and is in the same state, as if they had arrived as
\* one chunk.
C21_BoundaryInsensitive ==
  LET whole == onChunk(NativeMessagingHost, Fed)
  IN /\ host.log = whole.log
     /\ host.buffer = whole.buffer
     /\ host.frameLen = whole.frameLen

\* A stream with a frame of no payload and a frame with a message arrived
\* in chunks that ended inside a length prefix and inside a payload.
C21_Witness ==
  /\ host.pending = << >>
  /\ {"prefix", "payload"} \subseteq host.cut
  /\ \E i \in DOMAIN host.frames : host.frames[i].value = << >>
  /\ \E i \in DOMAIN host.log : host.log[i].type = "onMessage"
  /\ \E i \in DOMAIN host.log : host.log[i].type = "write"

\* C22: when every frame of the stream was written by sendMessage and all
\* its bytes have been delivered, the decoder has handed exactly the
\* messages given to sendMessage to onMessage, in order, and has no byte
\* buffered and no frame length pending.
C22_EncodeDecode ==
  (/\ host.pending = << >>
   /\ \A i \in DOMAIN host.frames : host.frames[i].kind = "message") =>
    /\ host.log = [i \in DOMAIN host.frames |->
                     [type |-> "onMessage", message |-> host.frames[i].value]]
    /\ host.buffer = << >>
    /\ host.frameLen = -1

\* Two different messages, the first with a character of two bytes, went
\* through sendMessage and the decoder.
C22_Witness ==
  /\ host.pending = << >>
  /\ Len(host.frames) >= 2
  /\ host.frames[1] = [kind |-> "message", value |-> [method |-> "é"]]
  /\ host.frames[2] = [kind |-> "message", value |-> [id |-> 1]]
  /\ Len(host.log) = Len(host.frames)
  /\ host.log[1].message = [method |-> "é"]

\* The frames of the stream that have been delivered completely.
Complete ==
  { i \in DOMAIN host.frames : Len(Stream(SubSeq(host.frames, 1, i))) <= Len(Fed) }

\* C23: for every completely delivered frame the decoder has made one log
\* entry, in the order of the frames: a frame whose payload is not JSON is
\* answered with one write of a framed {error: "Failed to parse message:
\* ..."}, and the frames after it are handed to onMessage as if it had not
\* been there; when the stream has ended the decoder awaits a length prefix.
C23_ParseFailure ==
  /\ DOMAIN host.log = Complete
  /\ \A i \in Complete :
       host.log[i] =
         IF host.frames[i].kind = "message"
         THEN [type |-> "onMessage", message |-> host.frames[i].value]
         ELSE [type |-> "write",
               bytes |-> << 65, 0, 0, 0 >> \o
                         stringify([error |-> "Failed to parse message: Unexpected end of JSON input"])]
  /\ host.pending = << >> => (host.frameLen = -1 /\ host.buffer = << >>)

\* A frame that is not JSON and a message behind it arrived in one chunk:
\* the failure was reported and the message delivered.
C23_Witness ==
  /\ host.pending = << >>
  /\ host.cut = {}
  /\ Len(host.frames) >= 2
  /\ host.frames[1] = [kind |-> "raw", value |-> << 91 >>]
  /\ host.frames[2].kind = "message"
  /\ host.log[1].type = "write"
  /\ host.log[2] = [type |-> "onMessage", message |-> host.frames[2].value]

----------------------------------------------------------------------------
\* The text the extension side supplied with an error: error.message, or
\* the error itself where it is a string.
Supplied(error) ==
  IF "message" \in DOMAIN error THEN error.message ELSE error.text

\* C24: a promise of send() settled by a response that carries an error is
\* rejected with the text the extension side supplied, and a response sent
\* to the consumer for it has that text as error.message; a response
\* without error resolves the promise with its result.
C24_ErrorText ==
  \A i \in DOMAIN settledNow :
    LET s == settledNow[i]
    IN \A k \in DOMAIN now.frames :
         now.frames[k].id = s.call =>
           IF now.frames[k].error # Undefined
           THEN /\ s.outcome = "reject"
                /\ s.value.message = Supplied(now.frames[k].error)
                /\ \A j \in DOMAIN out :
                     (out[j].cause = s.cause /\ s.kind = "forward") =>
                       out[j].message.error =
                         [message |-> Supplied(now.frames[k].error)]
           ELSE /\ s.outcome = "resolve"
                /\ s.value = now.frames[k].result

----------------------------------------------------------------------------
(* The extension side: RelayConnection (relayConnection.ts) over            *)
(* chrome.debugger.  e is the record of the extension's state; a command   *)
(* is handled in one step, its debugger calls answered in turn.            *)

Tabs == { 7, 8 }

\* The step record of a step that has not sent or returned anything yet.
Step(step, connection, tabId, method) ==
  [step |-> step, connection |-> connection, tabId |-> tabId, method |-> method,
   outcome |-> "", value |-> Undefined, sent |-> << >>]

\* chrome.debugger.attach: refused while the extension's debugger is
\* attached to the tab.
debuggerAttach(e, tabId) ==
  IF tabId \in e.attached
  THEN [ok |-> FALSE, e |-> e,
        error |-> "Another debugger is already attached to the tab"]
  ELSE [ok |-> TRUE, e |-> [e EXCEPT !.attached = @ \cup {tabId}], error |-> ""]

\* chrome.debugger.detach: refused when the debugger is not attached.
debuggerDetach(e, tabId) ==
  IF tabId \notin e.attached
  THEN [ok |-> FALSE, e |-> e, error |-> "Debugger is not attached to the tab"]
  ELSE [ok |-> TRUE, e |-> [e EXCEPT !.attached = @ \ {tabId}], error |-> ""]

\* chrome.debugger.sendCommand
debuggerSendCommand(e, tabId, method) ==
  IF tabId \notin e.attached
  THEN [ok |-> FALSE, error |-> "Debugger is not attached to the tab",
        result |-> Undefined]
  ELSE [ok |-> TRUE, error |-> "",
        result |-> IF method = "Target.getTargetInfo"
                   THEN [targetInfo |-> [targetId |-> "T", tab |-> tabId]]
                   ELSE [echo |-> method]]

\* RelayConnection._rootSessionId, `pw-tab-${tabId}`
rootSessionId(tabId) == << "pw-tab-", tabId >>

\* The value an async function ends with.
Returned(e, value) == [e EXCEPT !.last.outcome = "resolve", !.last.value = value]

Thrown(e, error) ==
  [e EXCEPT !.last.outcome = "reject", !.last.value = [message |-> error]]

(* RelayConnection constructor                                             *)
newRelayConnection(e, tabId) ==
  LET c == Len(e.connections) + 1
  IN [e EXCEPT !.connections = Append(@, [tabId |-> tabId, closed |-> FALSE]),
               !.onEvent = @ \cup {c},
               !.onDetach = @ \cup {c},
               !.last = Step("new", c, tabId, "")]

\* Mutant of relayClose: the listeners stay registered.
relayCloseKeepsListeners(e, c) ==
  [e EXCEPT !.connections[c].closed = TRUE,
            !.last = Step("close", c, e.connections[c].tabId, "")]

(* RelayConnection.close                                                   *)
relayClose(e, c) ==
  [e EXCEPT !.onEvent = @ \ {c},
            !.onDetach = @ \ {c},
            !.connections[c].closed = TRUE,
            !.last = Step("close", c, e.connections[c].tabId, "")]

(* RelayConnection._sendEvent                                              *)
sendEvent(e, c, method, params) ==
  [e EXCEPT !.last.sent = Append(@, [connection |-> c, method |-> method,
                                     params |-> params])]

(* RelayConnection._onDebuggerEvent                                        *)
onDebuggerEvent(e, c, source, method, params) ==
  IF source.tabId # e.connections[c].tabId THEN e
  ELSE sendEvent(e, c, "forwardCDPEvent",
         [sessionId |-> IF source.sessionId # "" THEN source.sessionId
                        ELSE rootSessionId(e.connections[c].tabId),
          method |-> method, params |-> params])

(* RelayConnection._onDebuggerDetach                                       *)
onDebuggerDetach(e, c, source, reason) ==
  IF source.tabId # e.connections[c].tabId THEN e
  ELSE sendEvent(e, c, "detachedFromTab",
         [tabId |-> e.connections[c].tabId, reason |-> reason])

(* RelayConnection._onCommand                                              *)
onCommand(e, c, method, params) ==
  LET tabId == e.connections[c].tabId
      e0 == [e EXCEPT !.last = Step("command", c, tabId, method)]
  IN CASE method = "attachToTab" ->
            LET a == debuggerAttach(e0, tabId)
                r == debuggerSendCommand(a.e, tabId, "Target.getTargetInfo")
            IN IF ~a.ok THEN Thrown(e0, a.error)
               ELSE IF ~r.ok THEN Thrown(a.e, r.error)
               ELSE Returned(a.e, [sessionId |-> rootSessionId(tabId),
                                   targetInfo |-> r.result.targetInfo])
       [] method = "detachFromTab" ->
            LET d == debuggerDetach(e0, tabId)
            IN IF ~d.ok THEN Thrown(e0, d.error) ELSE Returned(d.e, Undefined)
       [] method = "forwardCDPCommand" ->
            LET r == debuggerSendCommand(e0, tabId, params.method)
            IN IF ~r.ok THEN Thrown(e0, r.error) ELSE Returned(e0, r.result)
       [] OTHER -> Returned(e0, Undefined)

\* The listeners of an event, called in the order of their registration.
RECURSIVE dispatch(_, _, _, _)
dispatch(e, listeners, c, call) ==
  IF c > Len(e.connections) THEN e
  ELSE LET e1 == IF c \notin listeners THEN e
                 ELSE IF call.event = "onEvent"
                 THEN onDebuggerEvent(e, c, call.source, call.method, call.params)
                 ELSE onDebuggerDetach(e, c, call.source, call.reason)
       IN dispatch(e1, listeners, c + 1, call)

(* The extension's steps.  A RelayConnection is created for a tab when    *)
(* the one before it is closed; the debugger reports events of the tabs it *)
(* is attached to, and a detach when the tab closes or another debugger    *)
(* takes the tab over.                                                     *)
NewRelayConnection ==
  /\ Len(extension.connections) < MaxCycles
  /\ \A c \in DOMAIN extension.connections : extension.connections[c].closed
  /\ \E tabId \in Tabs : extension' = newRelayConnection(extension, tabId)
  /\ UNCHANGED << vars, host, factory, persistent, backend, client, context >>

RelayClose ==
  /\ \E c \in DOMAIN extension.connections :
       /\ ~extension.connections[c].closed
       /\ extension' = relayClose(extension, c)
  /\ UNCHANGED << vars, host, factory, persistent, backend, client, context >>

OnCommand ==
  /\ \E c \in DOMAIN extension.connections :
       /\ ~extension.connections[c].closed
       /\ \E method \in { "attachToTab", "detachFromTab", "forwardCDPCommand" } :
            extension' = onCommand(extension, c, method,
                                   [sessionId |-> "", method |-> "Page.enable"])
  /\ UNCHANGED << vars, host, factory, persistent, backend, client, context >>

DebuggerEvent ==
  /\ \E tabId \in extension.attached : \E sessionId \in { "", "S" } :
       extension' =
         dispatch([extension EXCEPT !.last = Step("event", 0, tabId, "")],
                  extension.onEvent, 1,
                  [event |-> "onEvent",
                   source |-> [tabId |-> tabId, sessionId |-> sessionId],
                   method |-> "Page.loaded", params |-> Undefined])
  /\ UNCHANGED << vars, host, factory, persistent, backend, client, context >>

DebuggerDetach ==
  /\ \E tabId \in extension.attached :
     \E reason \in { "target_closed", "canceled_by_user" } :
       extension' =
         dispatch([extension EXCEPT !.attached = @ \ {tabId},
                                    !.last = Step("detach", 0, tabId, reason)],
                  extension.onDetach, 1,
                  [event |-> "onDetach", source |-> [tabId |-> tabId],
                   reason |-> reason])
  /\ UNCHANGED << vars, host, factory, persistent, backend, client, context >>

InitExtension == RelayInit /\ Idle

NextExtension ==
  \/ NewRelayConnection
  \/ RelayClose
  \/ OnCommand
  \/ DebuggerEvent
  \/ DebuggerDetach

SpecExtension == InitExtension /\ [][NextExtension]_<< vars, others >>

\* The command the step taken last handled on a RelayConnection, if any.
Commanded(e, method) == e.last.step = "command" /\ e.last.method = method

(* C25: detachFromTab is idempotent: whenever a RelayConnection has        *)
(* handled detachFromTab, with the debugger attached to its tab or not,    *)
(* the command has returned without an error and the tab is detached.      *)
C25_DetachIdempotent ==
  Commanded(extension, "detachFromTab") =>
    /\ extension.last.outcome = "resolve"
    /\ extension.last.tabId \notin extension.attached

(* C26: attachToTab handled while the debugger is already attached to the  *)
(* connection's tab is a no-op that returns the same sessionId and target  *)
(* instead of an error.                                                    *)
C26_RepeatedAttach ==
  [][ (/\ Commanded(extension', "attachToTab")
       /\ extension'.last.tabId \in extension.attached)
      => /\ extension'.last.outcome = "resolve"
         /\ extension'.last.value =
              [sessionId |-> rootSessionId(extension'.last.tabId),
               targetInfo |-> [targetId |-> "T", tab |-> extension'.last.tabId]]
         /\ extension'.attached = extension.attached ]_<< vars, others >>

(* C27: a closed RelayConnection has no listener left on the debugger's    *)
(* events and detaches, and whatever a debugger event or detach makes a    *)
(* connection send, it sends on an open connection bound to the tab the    *)
(* event or detach is of: forwardCDPEvent for an event, detachedFromTab    *)
(* for a detach.                                                           *)
C27_ListenersRemoved ==
  /\ \A c \in DOMAIN extension.connections :
       extension.connections[c].closed =>
         c \notin extension.onEvent \cup extension.onDetach
  /\ \A i \in DOMAIN extension.last.sent :
       LET m == extension.last.sent[i]
       IN /\ ~extension.connections[m.connection].closed
          /\ extension.connections[m.connection].tabId = extension.last.tabId
          /\ extension.last.step \in { "event", "detach" }
          /\ m.method = IF extension.last.step = "event" THEN "forwardCDPEvent"
                        ELSE "detachedFromTab"

\* The second RelayConnection of a tab republishes an event of the tab, the
\* closed first one nothing.
C27_Witness ==
  /\ Len(extension.connections) >= 2
  /\ extension.connections[1].closed
  /\ extension.connections[1].tabId = extension.connections[2].tabId
  /\ extension.last.step \in { "event", "detach" }
  /\ extension.last.tabId = extension.connections[1].tabId
  /\ Len(extension.last.sent) = 1
  /\ extension.last.sent[1].connection = 2

----------------------------------------------------------------------------
(* BaseContextFactory (browserContextFactory.ts), as IsolatedContextFactory *)
(* of a server in isolated mode.  f is the factory's record: browsers[b]   *)
(* is [state, contexts] with state "launching", "live", "closing" or       *)
(* "closed" and contexts the sessions whose context browser.contexts()     *)
(* lists.                                                                  *)

contexts(f, b) == f.browsers[b].contexts

(* BaseContextFactory._obtainBrowser                                       *)
obtainBrowser(f) ==
  IF f.browserPromise # 0 THEN [f |-> f, browser |-> f.browserPromise]
  ELSE [f |-> [f EXCEPT !.browsers = Append(@, [state |-> "launching",
                                                  contexts |-> {}]),
                        !.browserPromise = Len(f.browsers) + 1],
        browser |-> Len(f.browsers) + 1]

(* BaseContextFactory.createContext up to the await that a later task     *)
(* ends: of the browser while it is launching, else of                     *)
(* browser.newContext(), which fails on a browser that is closing.         *)
createContext(f, s) ==
  LET o == obtainBrowser(f)
      state == o.f.browsers[o.browser].state
  IN [o.f EXCEPT !.sessions[s] =
        [pc |-> CASE state = "launching" -> "obtaining"
                  [] state = "live" -> "creating"
                  [] OTHER -> "failed",
         browser |-> o.browser]]

(* browserType.launch() resolves: every createContext that awaits the      *)
(* browser goes on to _doCreateContext.                                    *)
launched(f, b) ==
  [f EXCEPT !.browsers[b].state = "live",
            !.sessions = [s \in DOMAIN @ |->
                            IF @[s].browser = b /\ @[s].pc = "obtaining"
                            THEN [@[s] EXCEPT !.pc = "creating"] ELSE @[s]]]

(* BaseContextFactory._closeBrowserContext up to browserContext.close()     *)
closeBrowserContext(f, s) ==
  LET b == f.sessions[s].browser
  IN [f EXCEPT !.browserPromise = IF Cardinality(contexts(f, b)) = 1 THEN 0 ELSE @,
               !.sessions[s].pc = "closing"]

(* BaseContextFactory._closeBrowserContext after browserContext.close()     *)
contextClosed(f, s) ==
  LET b == f.sessions[s].browser
      left == contexts(f, b) \ {s}
  IN IF left = {}
     THEN [f EXCEPT !.browsers[b].contexts = left,
                    !.browsers[b].state = IF @ = "live" THEN "closing" ELSE @,
                    !.sessions[s].pc = IF f.browsers[b].state = "closed"
                                       THEN "done" ELSE "closingBrowser"]
     ELSE [f EXCEPT !.browsers[b].contexts = left, !.sessions[s].pc = "done"]

(* The 'disconnected' listener of _obtainBrowser, and browser.close()      *)
(* returning to the sessions that wait for it.                             *)
disconnected(f, b) ==
  [f EXCEPT !.browserPromise = 0,
            !.browsers[b].state = "closed",
            !.sessions = [s \in DOMAIN @ |->
                            IF @[s].browser = b /\ @[s].pc = "closingBrowser"
                            THEN [@[s] EXCEPT !.pc = "done"] ELSE @[s]]]

CreateContext ==
  /\ \E s \in DOMAIN factory.sessions :
       /\ factory.sessions[s].pc = "idle"
       /\ factory' = createContext(factory, s)
  /\ UNCHANGED << vars, host, extension, persistent, backend, client, context >>

\* browserType.launch() resolves.
BrowserLaunched ==
  /\ \E b \in DOMAIN factory.browsers :
       /\ factory.browsers[b].state = "launching"
       /\ factory' = launched(factory, b)
  /\ UNCHANGED << vars, host, extension, persistent, backend, client, context >>

\* browser.newContext() resolves: the context is one of browser.contexts().
ContextCreated ==
  /\ \E s \in DOMAIN factory.sessions :
       LET b == factory.sessions[s].browser
       IN /\ factory.sessions[s].pc = "creating"
          /\ factory' =
               IF factory.browsers[b].state = "live"
               THEN [factory EXCEPT !.browsers[b].contexts = @ \cup {s},
                                    !.sessions[s].pc = "open"]
               ELSE [factory EXCEPT !.sessions[s].pc = "failed"]
  /\ UNCHANGED << vars, host, extension, persistent, backend, client, context >>

\* The session ends: the close() that createContext returned is called.
CloseBrowserContext ==
  /\ \E s \in DOMAIN factory.sessions :
       /\ factory.sessions[s].pc = "open"
       /\ factory' = closeBrowserContext(factory, s)
  /\ UNCHANGED << vars, host, extension, persistent, backend, client, context >>

ContextClosed ==
  /\ \E s \in DOMAIN factory.sessions :
       /\ factory.sessions[s].pc = "closing"
       /\ factory' = contextClosed(factory, s)
  /\ UNCHANGED << vars, host, extension, persistent, backend, client, context >>

BrowserClosed ==
  /\ \E b \in DOMAIN factory.browsers :
       /\ factory.browsers[b].state = "closing"
       /\ factory' = disconnected(factory, b)
  /\ UNCHANGED << vars, host, extension, persistent, backend, client, context >>

InitFactory == RelayInit /\ Idle

NextFactory ==
  \/ CreateContext
  \/ BrowserLaunched
  \/ ContextCreated
  \/ CloseBrowserContext
  \/ ContextClosed
  \/ BrowserClosed

SpecFactory == InitFactory /\ [][NextFactory]_<< vars, others >>

\* The sessions that have asked for a context and have not begun to close it.
Overlapping == { s \in DOMAIN factory.sessions :
                   factory.sessions[s].pc \in { "obtaining", "creating", "open" } }

(* C28: in any interleaving of client sessions, the sessions that overlap  *)
(* (each has asked for its context, none has begun to close it) share one  *)
(* browser, so that none of them obtained a browser while another's was    *)
(* live, and the browser of an open context has not been closed.           *)
C28_SharedBrowser ==
  /\ \A s, t \in Overlapping :
       factory.sessions[s].browser = factory.sessions[t].browser
  /\ \A s \in Overlapping :
       factory.sessions[s].pc = "open"
         => factory.browsers[factory.sessions[s].browser].state = "live"

----------------------------------------------------------------------------
(* PersistentContextFactory.createContext (browserContextFactory.ts)       *)

\* for (let i = 0; i < 5; i++)
MaxLaunches == 5

userDataDir == "mcp-chrome"

\* Messages of the errors browserType.launchPersistentContext rejects with.
LaunchErrors ==
  { "Executable doesn't exist at /ms-playwright/chrome",
    "Failed to create a ProcessSingleton for your profile directory",
    "Invalid URL",
    "Timeout 180000ms exceeded" }

\* String.prototype.includes on the messages above.
includes(message, needle) ==
  CASE needle = "Executable doesn't exist" ->
         message = "Executable doesn't exist at /ms-playwright/chrome"
    [] needle = "ProcessSingleton" ->
         message = "Failed to create a ProcessSingleton for your profile directory"
    [] needle = "Invalid URL" -> message = "Invalid URL"
    [] OTHER -> FALSE

NotInstalled ==
  "Browser specified in your config is not installed. Either install it (likely) or change the config."

InUse ==
  "Browser is already in use for " \o userDataDir
    \o ", use --isolated to run multiple instances of the same browser"

\* createContext up to its first launchPersistentContext
launchPersistentContext(p, s) ==
  [p EXCEPT ![s] = [pc |-> "launching", i |-> 0, error |-> "", thrown |-> ""]]

\* Mutant of launchRejected: every error is retried.
launchRejectedRetriesAll(p, s, message) ==
  [p EXCEPT ![s].error = message, ![s].pc = "waiting"]

\* The catch of the loop's body.
launchRejected(p, s, message) ==
  IF includes(message, "Executable doesn't exist")
  THEN [p EXCEPT ![s].error = message, ![s].pc = "failed",
                 ![s].thrown = NotInstalled]
  ELSE IF includes(message, "ProcessSingleton") \/ includes(message, "Invalid URL")
  THEN [p EXCEPT ![s].error = message, ![s].pc = "waiting"]
  ELSE [p EXCEPT ![s].error = message, ![s].pc = "failed", ![s].thrown = message]

\* continue after the timeout of 1000 ms: i++, the loop's test, the next
\* launch or the throw behind the loop.
retry(p, s) ==
  IF p[s].i + 1 < MaxLaunches
  THEN [p EXCEPT ![s].i = @ + 1, ![s].pc = "launching"]
  ELSE [p EXCEPT ![s].i = @ + 1, ![s].pc = "failed", ![s].thrown = InUse]

PersistentCreateContext ==
  /\ \E s \in DOMAIN persistent :
       /\ persistent[s].pc = "idle"
       /\ persistent' = launchPersistentContext(persistent, s)
  /\ UNCHANGED << vars, host, extension, factory, backend, client, context >>

LaunchResolved ==
  /\ \E s \in DOMAIN persistent :
       /\ persistent[s].pc = "launching"
       /\ persistent' = [persistent EXCEPT ![s].pc = "returned"]
  /\ UNCHANGED << vars, host, extension, factory, backend, client, context >>

LaunchRejected ==
  /\ \E s \in DOMAIN persistent : \E message \in LaunchErrors :
       /\ persistent[s].pc = "launching"
       /\ persistent' = launchRejected(persistent, s, message)
  /\ UNCHANGED << vars, host, extension, factory, backend, client, context >>

RetryTimeout ==
  /\ \E s \in DOMAIN persistent :
       /\ persistent[s].pc = "waiting"
       /\ persistent' = retry(persistent, s)
  /\ UNCHANGED << vars, host, extension, factory, backend, client, context >>

\* The close() that createContext returned: PersistentContextFactory.
\* _closeBrowserContext.
PersistentClose ==
  /\ \E s \in DOMAIN persistent :
       /\ persistent[s].pc = "returned"
       /\ persistent' = [persistent EXCEPT ![s].pc = "closed"]
  /\ UNCHANGED << vars, host, extension, factory, backend, client, context >>

InitPersistent == RelayInit /\ Idle

NextPersistent ==
  \/ PersistentCreateContext
  \/ LaunchResolved
  \/ LaunchRejected
  \/ RetryTimeout
  \/ PersistentClose

SpecPersistent == InitPersistent /\ [][NextPersistent]_<< vars, others >>

InUseError(message) ==
  /\ ~includes(message, "Executable doesn't exist")
  /\ includes(message, "ProcessSingleton") \/ includes(message, "Invalid URL")

(* C29: createContext launches at most 5 times; it goes on to another      *)
(* launch only after an error of a user data directory in use, fails with  *)
(* "Browser is already in use for <dir>, use --isolated ..." exactly when  *)
(* the fifth launch has failed so, and fails at once with the              *)
(* not-installed error for a missing executable and with the error itself  *)
(* for any other error.                                                    *)
C29_BoundedRetries ==
  \A s \in DOMAIN persistent :
    LET c == persistent[s]
    IN /\ c.pc = "launching" => c.i < MaxLaunches
       /\ c.pc = "waiting" => InUseError(c.error) /\ c.i < MaxLaunches
       /\ c.pc = "failed" =>
            CASE includes(c.error, "Executable doesn't exist") ->
                   c.thrown = NotInstalled
              [] InUseError(c.error) -> c.thrown = InUse /\ c.i = MaxLaunches
              [] OTHER -> c.thrown = c.error
       /\ c.error # "" /\ ~InUseError(c.error) => c.pc = "failed"

\* A createContext has failed after its fifth launch found the directory in
\* use.
C29_Witness ==
  \E s \in DOMAIN persistent :
    /\ persistent[s].pc = "failed"
    /\ persistent[s].thrown = InUse
    /\ persistent[s].i = MaxLaunches

----------------------------------------------------------------------------
(* ProxyBackend (mcp/proxyBackend.ts) and VSCodeProxyBackend (vscode/host.ts): *)
(* the browser_connect tool.  b is the backend's record; clients[c] is     *)
(* [via, closed] with via the factory or transport the client was made     *)
(* with.                                                                   *)

\* _clientFactories, by name
ClientFactories == << "default", "extension" >>

\* Arguments of browser_connect: a name for ProxyBackend, connectionString
\* and lib for VSCodeProxyBackend ("" where the argument is missing).
ConnectParams(kind) ==
  IF kind = "proxy"
  THEN { [name |-> n] : n \in { "default", "extension", "nope" } }
  ELSE [connectionString : { "", "ws://localhost" }, lib : { "", "playwright" }]

ToolResponse(text, isError) == [text |-> text, isError |-> isError]

\* The call that began the _setCurrentClient under way is answered.
Replied(b, response) ==
  [b EXCEPT !.switch = NoSwitch,
            !.last = [NoCall EXCEPT !.tool = b.switch.tool,
                                    !.params = b.switch.params,
                                    !.reply = response.text,
                                    !.isError = response.isError],
            !.selected = IF b.switch.tool = "initialize" THEN @
                         ELSE IF response.isError THEN 0 ELSE b.currentClient,
            !.initialized = TRUE]

\* An exception leaves callTool.
Rejected(b, error) ==
  [b EXCEPT !.switch = NoSwitch,
            !.last = [NoCall EXCEPT !.tool = b.switch.tool,
                                    !.params = b.switch.params,
                                    !.thrown = error],
            !.selected = IF b.switch.tool = "initialize" THEN @ ELSE 0]

\* Client.close() of the current client, if there is one
closeCurrent(b) ==
  IF b.currentClient = 0 THEN b
  ELSE [b EXCEPT !.clients[b.currentClient].closed = TRUE]

\* _setCurrentClient up to its first await that a later task ends.
setCurrentClient(b, tool, params, target) ==
  [b EXCEPT !.switch =
     [stage |-> IF b.currentClient # 0 THEN "closing"
                ELSE IF b.kind = "proxy" THEN "creating" ELSE "connecting",
      tool |-> tool, params |-> params, target |-> target]]

\* Mutant of clientReady: the client in use stays the current one.
clientReadyKeepsCurrent(b, ok) ==
  IF ~ok
  THEN IF b.kind = "proxy"
       THEN Replied(b, ToolResponse("### Result\nError: Error: connect ECONNREFUSED\n", TRUE))
       ELSE Rejected(b, "connect ECONNREFUSED")
  ELSE LET b1 == [b EXCEPT !.clients = Append(@, [via |-> b.switch.target,
                                                   closed |-> FALSE])]
       IN IF b.kind = "proxy" THEN [b1 EXCEPT !.switch.stage = "listing"]
          ELSE Replied(b1, ToolResponse(
                 IF b.switch.target = "stdio"
                 THEN "### Result\nSuccessfully connected.\n"
                 ELSE "### Result\nSuccessfully disconnected.\n", FALSE))

\* await this._currentClient?.close() is over.
clientClosed(b) ==
  IF b.kind = "proxy"
  THEN [closeCurrent(b) EXCEPT !.switch.stage = "creating"]
  ELSE [closeCurrent(b) EXCEPT !.currentClient = 0, !.switch.stage = "connecting"]

\* factory.create() of ProxyBackend or client.connect(transport) of
\* VSCodeProxyBackend is over, with a client (ok) or an error.  The error
\* is caught by ProxyBackend._callContextSwitchTool and not by
\* VSCodeProxyBackend.
clientReady(b, ok) ==
  IF ~ok
  THEN IF b.kind = "proxy"
       THEN Replied(b, ToolResponse("### Result\nError: Error: connect ECONNREFUSED\n", TRUE))
       ELSE Rejected(b, "connect ECONNREFUSED")
  ELSE LET b1 == [b EXCEPT !.clients = Append(@, [via |-> b.switch.target,
                                                   closed |-> FALSE]),
                           !.currentClient = Len(b.clients) + 1]
       IN IF b.kind = "proxy" THEN [b1 EXCEPT !.switch.stage = "listing"]
          ELSE Replied(b1, ToolResponse(
                 IF b.switch.target = "stdio"
                 THEN "### Result\nSuccessfully connected.\n"
                 ELSE "### Result\nSuccessfully disconnected.\n", FALSE))

\* ProxyBackend._setCurrentClient: listTools() of the new client is over.
toolsListed(b) ==
  Replied(b, ToolResponse("### Result\nSuccessfully changed connection method.\n",
                          FALSE))

(* _callContextSwitchTool of both backends                                 *)
callContextSwitchTool(b, params) ==
  IF b.kind = "proxy"
  THEN IF \A i \in DOMAIN ClientFactories : ClientFactories[i] # params.name
       THEN [b EXCEPT !.last.reply = "### Result\nError: Error: Unknown connection method: "
                                       \o params.name \o "\n",
                      !.last.isError = TRUE,
                      !.selected = 0]
       ELSE setCurrentClient(b, "browser_connect", params, params.name)
  ELSE IF params.connectionString = "" \/ params.lib = ""
       THEN setCurrentClient(b, "browser_connect", params, "default")
       ELSE setCurrentClient(b, "browser_connect", params, "stdio")

(* callTool of both backends                                               *)
callTool(b, name, params) ==
  LET b0 == [b EXCEPT !.last = [NoCall EXCEPT !.tool = name, !.params = params]]
  IN IF name = "browser_connect" THEN callContextSwitchTool(b0, params)
     ELSE IF b.currentClient = 0
     THEN [b0 EXCEPT !.last.thrown =
             "Cannot read properties of undefined (reading 'callTool')"]
     ELSE [b0 EXCEPT !.last.routedTo = b.currentClient,
                     !.last.reply = IF b.clients[b.currentClient].closed
                                    THEN "Not connected" ELSE "### Result\n",
                     !.last.isError = b.clients[b.currentClient].closed]

(* initialize of both backends: the first client factory or the default    *)
(* transport.                                                              *)
Initialize ==
  /\ ~backend.initialized
  /\ backend.switch.stage = "none"
  /\ backend' = setCurrentClient(
                  [backend EXCEPT !.last = [NoCall EXCEPT !.tool = "initialize"]],
                  "initialize", Undefined, "default")
  /\ UNCHANGED << vars, host, extension, factory, persistent, client, context >>

\* The MCP client calls browser_connect; it has the answer of the call
\* before it calls browser_connect again.
CallConnectTool ==
  /\ backend.initialized
  /\ backend.switch.stage = "none"
  /\ backend.connects < MaxInputs
  /\ \E params \in ConnectParams(backend.kind) :
       backend' = callTool([backend EXCEPT !.connects = @ + 1],
                           "browser_connect", params)
  /\ UNCHANGED << vars, host, extension, factory, persistent, client, context >>

\* The MCP client calls another tool, at any time.
CallTool ==
  /\ backend.initialized
  /\ \E name \in { "browser_navigate", "browser_snapshot" } :
       backend' = callTool(backend, name, Undefined)
  /\ UNCHANGED << vars, host, extension, factory, persistent, client, context >>

ClientClosed ==
  /\ backend.switch.stage = "closing"
  /\ backend' = clientClosed(backend)
  /\ UNCHANGED << vars, host, extension, factory, persistent, client, context >>

\* A backend whose initialize fails serves no tool call: its first client
\* is taken to come about.
ClientReady ==
  /\ backend.switch.stage \in { "creating", "connecting" }
  /\ \E ok \in BOOLEAN :
       /\ backend.switch.tool = "initialize" => ok
       /\ backend' = clientReady(backend, ok)
  /\ UNCHANGED << vars, host, extension, factory, persistent, client, context >>

ToolsListed ==
  /\ backend.switch.stage = "listing"
  /\ backend' = toolsListed(backend)
  /\ UNCHANGED << vars, host, extension, factory, persistent, client, context >>

InitBackend ==
  /\ RelayInit
  /\ host = NativeMessagingHost
  /\ extension = Background
  /\ factory = BaseContextFactory
  /\ persistent = PersistentContextFactory
  /\ \E kind \in { "proxy", "vscode" } : backend = ProxyBackend(kind)
  /\ client = NativeMessagingClient
  /\ context = Context

NextBackend ==
  \/ Initialize
  \/ CallConnectTool
  \/ CallTool
  \/ ClientClosed
  \/ ClientReady
  \/ ToolsListed

SpecBackend == InitBackend /\ [][NextBackend]_<< vars, others >>

\* browser_connect has been answered in the step taken last.
Answered ==
  /\ backend.last.tool = "browser_connect"
  /\ backend.last.reply # ""

Available(params) ==
  IF backend.kind = "proxy"
  THEN \E i \in DOMAIN ClientFactories : ClientFactories[i] = params.name
  ELSE params.connectionString # "" /\ params.lib # ""

(* C30: browser_connect with an available connection method, whose client  *)
(* comes about, is answered "Successfully changed connection method." by   *)
(* ProxyBackend and "Successfully connected." by VSCodeProxyBackend, and   *)
(* the current client is then a new, open client of that method; a tool    *)
(* call made after the answer, with no other browser_connect under way, is *)
(* routed to that client; an unknown name is answered with an error        *)
(* result.                                                                 *)
C30_Routed ==
  /\ (Answered /\ Available(backend.last.params) /\ ~backend.last.isError) =>
       /\ backend.last.reply =
            IF backend.kind = "proxy"
            THEN "### Result\nSuccessfully changed connection method.\n"
            ELSE "### Result\nSuccessfully connected.\n"
       /\ backend.currentClient = Len(backend.clients)
       /\ backend.selected = backend.currentClient
       /\ ~backend.clients[backend.currentClient].closed
       /\ backend.clients[backend.currentClient].via =
            IF backend.kind = "proxy" THEN backend.last.params.name ELSE "stdio"
  /\ (Answered /\ Available(backend.last.params) /\ backend.last.isError) =>
       backend.last.reply = "### Result\nError: Error: connect ECONNREFUSED\n"
  /\ (Answered /\ backend.kind = "proxy" /\ ~Available(backend.last.params)) =>
       /\ backend.last.isError
       /\ backend.last.reply =
            "### Result\nError: Error: Unknown connection method: nope\n"
  /\ (/\ backend.last.tool \in { "browser_navigate", "browser_snapshot" }
      /\ backend.selected # 0
      /\ backend.switch.stage = "none") =>
       /\ backend.last.routedTo = backend.selected
       /\ backend.last.routedTo = Len(backend.clients)
       /\ ~backend.last.isError

\* A tool call is routed to the client of the extension method that the
\* browser_connect before it has selected, the third client of the backend.
C30_Witness ==
  /\ backend.kind = "proxy"
  /\ backend.last.tool = "browser_navigate"
  /\ backend.switch.stage = "none"
  /\ backend.selected = 3
  /\ backend.last.routedTo = 3
  /\ backend.clients[3].via = "extension"
  /\ backend.clients[2].closed

----------------------------------------------------------------------------
(* Further properties of the relay.                                        *)

(* C31: what the relay produces for a consumer command when the           *)
(* extension's answer to it arrives, a response or the fabricated          *)
(* Target.attachedToTarget event, is sent to the socket the command came   *)
(* from or, if that consumer was closed or replaced meanwhile, to nobody.  *)
C31_OnlyToIssuer ==
  now.type = "data" =>
    \A j \in DOMAIN out :
      out[j].cause # 0 => out[j].to \in { 0, commands[out[j].cause].ws }

(* C32: the close event of a consumer socket that was replaced by a newer  *)
(* one changes no relay state: the current socket, ConnectionInfo, the     *)
(* extension connection, the id counter and the pending requests stay as   *)
(* they are, nothing is sent to the consumer and no detachFromTab or other *)
(* request is written to the extension.                                    *)
C32_StaleCloseIgnored ==
  [][(/\ now'.type = "close"
      /\ playwrightSocket # 0
      /\ now'.ws # playwrightSocket) =>
       /\ playwrightSocket' = playwrightSocket
       /\ readyState'[playwrightSocket] = readyState[playwrightSocket]
       /\ connectionInfo' = connectionInfo
       /\ extensionConnection' = extensionConnection
       /\ lastId' = lastId
       /\ callbacks' = callbacks
       /\ calls' = calls
       /\ out' = << >>
       /\ written' = << >>
       /\ exitCode' = exitCode]_vars

\* The replaced socket reported its close while the newer one was current
\* and a target was attached: both are kept.
C32_Witness ==
  /\ now.type = "close"
  /\ now.ws = 1
  /\ closeFrame[1].code = 1000
  /\ playwrightSocket = 2
  /\ readyState[2] = "OPEN"
  /\ connectionInfo # Undefined
  /\ extensionConnection # 0

(* C33: a relay without an extension connection never has one again, and  *)
(* every consumer command it receives from then on is answered, in the     *)
(* callback that receives it, with {id, error: {message: "Extension not    *)
(* connected"}} and nothing else, on the socket it came from when that is  *)
(* the open current socket; nothing is written to the extension.           *)
C33_Absorbing ==
  /\ [][extensionConnection = 0 => extensionConnection' = 0]_vars
  /\ [][(extensionConnection = 0 /\ now'.type \in { "message", "messages" }) =>
          /\ written' = << >>
          /\ Len(out') = Len(Received')
          /\ \A i \in DOMAIN out' :
               /\ out'[i].message = NotConnected(Received'[i].id)
               /\ (playwrightSocket = now'.ws /\ readyState[now'.ws] = "OPEN")
                    => out'[i].to = now'.ws]_vars

\* The extension connection was dropped on detachedFromTab; the consumer
\* gets the error for the forwarded command it sends afterwards.
C33_Witness ==
  /\ extensionConnection = 0
  /\ ~stopped.called
  /\ now.type = "message"
  /\ now.message.method = "Page.navigate"
  /\ Len(out) = 1
  /\ out[1].to = now.ws
  /\ out[1].message = NotConnected(now.message.id)

\* The frames of a chunk that carry an id, and of these the ones that match
\* a request pending in the table.
WithId(frames) == { k \in DOMAIN frames : frames[k].id # 0 }

Matching(frames, table) == { k \in WithId(frames) : frames[k].id \in DOMAIN table }

(* C34: of the frames the extension sends, those with an id that matches   *)
(* no pending request settle no promise, leave the pending table as it is  *)
(* and reach no event callback: a chunk of such frames changes nothing in  *)
(* the relay and sends nothing.  In any chunk the promises settled and the *)
(* entries removed from the table are those of the ids that matched, and   *)
(* every forwardCDPEvent frame, which has no id, is passed on exactly once *)
(* and settles nothing.                                                    *)
C34_StraysDropped ==
  [][now'.type = "data" =>
       LET frames == now'.frames
           matched == { frames[k].id : k \in Matching(frames, callbacks) }
       IN /\ DOMAIN callbacks' = (DOMAIN callbacks) \ matched
          /\ { settledNow'[i].call : i \in DOMAIN settledNow' } = matched
          /\ Len(settledNow') = Cardinality(matched)
          /\ Cardinality({ j \in DOMAIN out' : IsUnprompted(out'[j]) }) =
               Cardinality({ k \in DOMAIN frames : IsForwardCDPEvent(frames[k]) })
          /\ (WithId(frames) = DOMAIN frames /\ matched = {}) =>
               /\ callbacks' = callbacks
               /\ out' = << >>
               /\ written' = << >>
               /\ connectionInfo' = connectionInfo
               /\ extensionConnection' = extensionConnection
               /\ playwrightSocket' = playwrightSocket]_vars

\* A response with an id nobody waits for arrived while a request was
\* pending: the request stays pending.
C34_Witness ==
  /\ now.type = "data"
  /\ Len(now.frames) = 1
  /\ now.frames[1].id # 0
  /\ settledNow = << >>
  /\ DOMAIN callbacks # {}
  /\ out = << >>

----------------------------------------------------------------------------
(* NativeMessagingClient._handleAcceptMCPConnection (nativeMessagingClient.ts) *)
(* and the connection dialog.  n is the client's record.                   *)

\* sendResponse
sendResponse(n, r, accept) ==
  [n EXCEPT !.requests[r].responses = Append(@, accept)]

Remove(seq, r) == SelectSeq(seq, LAMBDA x : x # r)

\* handleChoice, up to its await of the connect callback
handleChoice(n, r, accept) ==
  LET n1 == [n EXCEPT !.listeners = Remove(@, r)]
  IN IF accept
     THEN [n1 EXCEPT !.transport = r, !.requests[r].pc = "connecting"]
     ELSE [sendResponse(n1, r, FALSE) EXCEPT !.requests[r].pc = "done"]

\* handleChoice behind its await: the connect callback has ended.
connectSettled(n, r, ok) ==
  IF ok
  THEN [sendResponse(n, r, TRUE) EXCEPT !.requests[r].pc = "done",
                                        !.requests[r].connect = "ok"]
  ELSE [sendResponse([n EXCEPT !.transport = 0], r, FALSE)
          EXCEPT !.requests[r].pc = "done", !.requests[r].connect = "failed"]

\* messageListener on chrome.runtime.onMessage; sender is the request whose
\* dialog tab sent the message, which the listener does not look at.
messageListener(n, r, msg) ==
  IF msg.type = "dialog-response"
  THEN handleChoice(n, r, msg.answer = "yes")
  ELSE n

\* tabRemovedListener on chrome.tabs.onRemoved; a tab is named by the
\* request it was opened for.
tabRemovedListener(n, r, tabId) ==
  IF tabId # r THEN n ELSE handleChoice(n, r, FALSE)

\* An event is given to the listeners registered when it is dispatched.
RECURSIVE dispatchMessage(_, _, _)
dispatchMessage(n, listeners, msg) ==
  IF listeners = << >> THEN n
  ELSE dispatchMessage(messageListener(n, Head(listeners), msg),
                       Tail(listeners), msg)

RECURSIVE dispatchRemoved(_, _, _)
dispatchRemoved(n, listeners, tabId) ==
  IF listeners = << >> THEN n
  ELSE dispatchRemoved(tabRemovedListener(n, Head(listeners), tabId),
                       Tail(listeners), tabId)

\* The port delivers acceptMCPConnection: chrome.tabs.create is called.
AcceptMCPConnection ==
  /\ \E r \in DOMAIN client.requests :
       /\ client.requests[r].pc = "idle"
       /\ client' = [client EXCEPT !.requests[r].pc = "opening"]
  /\ UNCHANGED << vars, host, extension, factory, persistent, backend, context >>

\* The dialog tab is there and focused, and both listeners are registered;
\* or opening it failed.
DialogOpened ==
  /\ \E r \in DOMAIN client.requests : \E ok \in BOOLEAN :
       /\ client.requests[r].pc = "opening"
       /\ client' =
            IF ok
            THEN [client EXCEPT !.requests[r].pc = "waiting",
                                !.requests[r].tab = "open",
                                !.listeners = Append(@, r)]
            ELSE [sendResponse(client, r, FALSE) EXCEPT !.requests[r].pc = "done"]
  /\ UNCHANGED << vars, host, extension, factory, persistent, backend, context >>

\* The user clicks yes or no in the dialog of a request: connection-dialog.js
\* sends {type: 'dialog-response', answer}.
DialogResponse ==
  /\ \E d \in DOMAIN client.requests : \E answer \in { "yes", "no" } :
       /\ client.requests[d].tab = "open"
       /\ client.requests[d].answer = ""
       /\ client' = dispatchMessage(
                      [client EXCEPT !.requests[d].answer = answer],
                      client.listeners,
                      [type |-> "dialog-response", answer |-> answer, sender |-> d])
  /\ UNCHANGED << vars, host, extension, factory, persistent, backend, context >>

\* The dialog tab of a request is closed.
DialogTabRemoved ==
  /\ \E d \in DOMAIN client.requests :
       /\ client.requests[d].tab = "open"
       /\ client' = dispatchRemoved([client EXCEPT !.requests[d].tab = "removed"],
                                    client.listeners, d)
  /\ UNCHANGED << vars, host, extension, factory, persistent, backend, context >>

\* The connect callback of a request ends.
ConnectSettled ==
  /\ \E r \in DOMAIN client.requests : \E ok \in BOOLEAN :
       /\ client.requests[r].pc = "connecting"
       /\ client' = connectSettled(client, r, ok)
  /\ UNCHANGED << vars, host, extension, factory, persistent, backend, context >>

InitClient == RelayInit /\ Idle

NextClient ==
  \/ AcceptMCPConnection
  \/ DialogOpened
  \/ DialogResponse
  \/ DialogTabRemoved
  \/ ConnectSettled

SpecClient == InitClient /\ [][NextClient]_<< vars, others >>

(* C35: every acceptMCPConnection request is answered at most once; it is  *)
(* answered accept=true only if the user answered "yes" in the dialog of   *)
(* the request and its connect callback succeeded; and a request answered  *)
(* accept=false has left no native messaging transport of its own          *)
(* installed.                                                              *)
C35_AcceptOnlyOnYes ==
  \A r \in DOMAIN client.requests :
    LET q == client.requests[r]
    IN /\ Len(q.responses) <= 1
       /\ q.responses = << TRUE >> => (q.answer = "yes" /\ q.connect = "ok")
       /\ q.responses = << FALSE >> => client.transport # r

(* C36: with several requests pending, a request is settled (its listeners *)
(* removed, its connect started or its answer sent) only by the answer     *)
(* given in its own dialog or by the removal of its own dialog tab.        *)
C36_OwnDialogOnly ==
  \A r \in DOMAIN client.requests :
    LET q == client.requests[r]
    IN (q.tab # "none" /\ q.pc \in { "connecting", "done" }) =>
         (q.answer # "" \/ q.tab = "removed")


(***************************************************************************)
(* Context (context.ts): the browser context of one MCP session, obtained  *)
(* lazily from the factory, its tabs and its current tab.                  *)
(*                                                                         *)
(* One step is one callback of the event loop with the microtasks it runs: *)
(* a tool calls newTab, ensureTab, selectTab, closeBrowserContext or       *)
(* dispose; the factory's createContext settles; newPage or bringToFront   *)
(* settles; a page opens or closes; the close() callback of the factory    *)
(* resolves.  Playwright reports a page before newPage() resolves and      *)
(* rejects bringToFront() on a page that closed first; close() resolves    *)
(* after the pages of the browser context have closed.                     *)
(***************************************************************************)

Min(a, b) == IF a <= b THEN a ELSE b

\* Array.prototype.indexOf, one-based; 0 when absent
indexOf(seq, x) ==
  IF x \in Range(seq) THEN CHOOSE i \in DOMAIN seq : seq[i] = x ELSE 0

\* Array.prototype.splice(index, 1)
splice(seq, index) ==
  [i \in 1 .. Len(seq) - 1 |-> IF i < index THEN seq[i] ELSE seq[i + 1]]

\* the last page Playwright has opened for this Context
pages(c) == Len(c.owner)

\* Context._onPageCreated
onPageCreated(c, page) ==
  [c EXCEPT !.tabs = Append(@, page),
            !.currentTab = IF @ = 0 THEN page ELSE @]

\* Context._onPageClosed without re-selecting a tab
onPageClosedKeepsCurrent(c, page) ==
  LET index == indexOf(c.tabs, page)
  IN IF index = 0 THEN c ELSE [c EXCEPT !.tabs = splice(c.tabs, index)]

\* Context._closeBrowserContextImpl that leaves _browserContextPromise set
closeBrowserContextImplKeepsPromise(c) ==
  IF c.browserContextPromise = 0
  THEN c
  ELSE LET k == c.browserContextPromise
       IN IF c.creations[k].state = "resolved"
          THEN [c EXCEPT !.closing = k,
                         !.creations[k].close = "closing",
                         !.creations[k].closeCalls = @ + 1]
          ELSE [c EXCEPT !.closing = k,
                         !.creations[k].close = "awaited"]

(* Context._closeBrowserContextImpl, up to its first await that does not   *)
(* settle at once: it takes the promise out of the field, and calls        *)
(* close() when the creation has resolved, else waits for the creation.    *)
closeBrowserContextImpl(c) ==
  IF c.browserContextPromise = 0
  THEN c
  ELSE LET k == c.browserContextPromise
       IN IF c.creations[k].state = "resolved"
          THEN [c EXCEPT !.browserContextPromise = 0,
                         !.closing = k,
                         !.creations[k].close = "closing",
                         !.creations[k].closeCalls = @ + 1]
          ELSE [c EXCEPT !.browserContextPromise = 0,
                         !.closing = k,
                         !.creations[k].close = "awaited"]

(* Context.closeBrowserContext, up to its await: _closeBrowserContextPromise *)
(* is set while _closeBrowserContextImpl is waiting; with nothing to close   *)
(* it is set and cleared within the step.                                    *)
contextCloseBrowserContext(c) ==
  IF c.closing = 0 THEN closeBrowserContextImpl(c) ELSE c

\* Context._onPageClosed
onPageClosed(c, page) ==
  LET index == indexOf(c.tabs, page)
      tabs == splice(c.tabs, index)
      c1 == [c EXCEPT !.tabs = tabs,
                      !.currentTab =
                        IF @ # page THEN @
                        ELSE IF tabs = << >> THEN 0
                        ELSE tabs[Min(index, Len(tabs))]]
  IN IF index = 0 THEN c
     ELSE IF tabs = << >> THEN contextCloseBrowserContext(c1) ELSE c1

\* Context._setupBrowserContext, up to the await of the factory's createContext
setupBrowserContext(c) ==
  IF c.closing # 0
  THEN [c |-> c, k |-> 0, thrown |-> "Another browser context is being closed."]
  ELSE LET k == Len(c.creations) + 1
       IN [c |-> [c EXCEPT !.creations =
                     Append(@, [state |-> "pending", close |-> "none",
                                closeCalls |-> 0]),
                           !.browserContextPromise = k],
           k |-> k, thrown |-> ""]

\* Context._ensureBrowserContext that never re-uses the promise it holds
ensureBrowserContextAlways(c) == setupBrowserContext(c)

(* Context._ensureBrowserContext: the promise it holds, else a new one; a  *)
(* promise that is rejected from the start is cleared by the catch handler *)
(* within the step.                                                        *)
ensureBrowserContext(c) ==
  IF c.browserContextPromise # 0
  THEN [c |-> c, k |-> c.browserContextPromise, thrown |-> ""]
  ELSE setupBrowserContext(c)

\* newTab and ensureTab after their await of the browser context
withBrowserContext(c, op, k) ==
  IF op = "ensureTab" /\ c.currentTab # 0
  THEN c
  ELSE [c EXCEPT !.paging = @ \cup { [op |-> op, k |-> k] }]

\* Context.newTab and Context.ensureTab, up to their first await that waits
obtainTab(c, op) ==
  LET e == ensureBrowserContext(c)
      c1 == [e.c EXCEPT !.last = ContextStep(op, 0, e.thrown)]
  IN IF e.thrown # "" THEN c1
     ELSE IF c1.creations[e.k].state = "pending"
     THEN [c1 EXCEPT !.waiting = @ \cup { [op |-> op, k |-> e.k] }]
     ELSE withBrowserContext(c1, op, e.k)

\* the callers of W continue with browser context k, one after the other
RECURSIVE resumeCallers(_, _)
resumeCallers(c, W) ==
  IF W = {} THEN c
  ELSE LET w == CHOOSE x \in W : TRUE
       IN resumeCallers(withBrowserContext(c, w.op, w.k), W \ { w })

\* browserContext.pages() of a new browser context: n pages
RECURSIVE initialPages(_, _, _)
initialPages(c, k, n) ==
  IF n = 0 THEN c
  ELSE LET c1 == [c EXCEPT !.owner = Append(@, k)]
       IN initialPages(onPageCreated(c1, pages(c1)), k, n - 1)

(* The factory's createContext resolves: _setupBrowserContext registers the *)
(* pages of the browser context; the callers that awaited it go on; a       *)
(* _closeBrowserContextImpl that awaited it calls close().                  *)
creationResolved(c, k, n) ==
  LET c1 == initialPages([c EXCEPT !.creations[k].state = "resolved"], k, n)
      W == { w \in c.waiting : w.k = k }
      c2 == resumeCallers([c1 EXCEPT !.waiting = @ \ W], W)
  IN [(IF c2.creations[k].close = "awaited"
       THEN [c2 EXCEPT !.creations[k].close = "closing",
                       !.creations[k].closeCalls = @ + 1]
       ELSE c2)
      EXCEPT !.last = ContextStep("created", 0, "")]

(* The factory's createContext rejects: the catch handler of               *)
(* _ensureBrowserContext clears the field, the callers throw, and a        *)
(* _closeBrowserContextImpl that awaited the creation ends, which clears   *)
(* _closeBrowserContextPromise.                                            *)
creationRejected(c, k) ==
  [c EXCEPT !.creations[k].state = "rejected",
            !.creations[k].close = IF @ = "awaited" THEN "none" ELSE @,
            !.browserContextPromise = 0,
            !.closing = IF @ = k THEN 0 ELSE @,
            !.waiting = { w \in @ : w.k # k },
            !.last = ContextStep("failed", 0, "createContext")]

\* newTab after browserContext.newPage()
selectPage(c, page) ==
  IF page \in Range(c.tabs) THEN [c EXCEPT !.currentTab = page]
  ELSE [c EXCEPT !.currentTab = 0]

\* a tool calls newTab() or ensureTab()
ObtainTab ==
  \E op \in { "newTab", "ensureTab" } :
    /\ context.browserContextPromise = 0 /\ context.closing = 0
         => Len(context.creations) < MaxContexts
    /\ context' = obtainTab(context, op)
    /\ UNCHANGED << vars, host, extension, factory, persistent, backend, client >>

\* the createContext of the factory resolves, with the pages it opened
CreationResolved ==
  \E k \in DOMAIN context.creations, n \in 0 .. 1 :
    /\ context.creations[k].state = "pending"
    /\ pages(context) + n <= MaxPages
    /\ context' = creationResolved(context, k, n)
    /\ UNCHANGED << vars, host, extension, factory, persistent, backend, client >>

\* the createContext of the factory rejects
CreationRejected ==
  \E k \in DOMAIN context.creations :
    /\ context.creations[k].state = "pending"
    /\ context' = creationRejected(context, k)
    /\ UNCHANGED << vars, host, extension, factory, persistent, backend, client >>

(* browserContext.newPage() settles for a caller of newTab or ensureTab:   *)
(* the 'page' event, then the caller goes on; it is rejected once the      *)
(* browser context is being closed.                                        *)
NewPageSettled ==
  \E w \in context.paging, ok \in BOOLEAN :
    LET c1 == [context EXCEPT !.paging = @ \ { w }]
        c2 == [c1 EXCEPT !.owner = Append(@, w.k)]
        c3 == onPageCreated(c2, pages(c2))
    IN /\ IF ok
          THEN /\ context.creations[w.k].close # "closed"
               /\ pages(context) < MaxPages
               /\ context' =
                    [(IF w.op = "newTab" THEN selectPage(c3, pages(c3)) ELSE c3)
                     EXCEPT !.last = ContextStep("newPage", 0, "")]
          ELSE /\ context.creations[w.k].close # "none"
               /\ context' = [c1 EXCEPT !.last = ContextStep("newPage", 0, "closed")]
       /\ UNCHANGED << vars, host, extension, factory, persistent, backend, client >>

\* the 'page' event of the browser context for a page the program did not ask for
PageCreated ==
  \E k \in DOMAIN context.creations :
    /\ context.creations[k].state = "resolved"
    /\ context.creations[k].close = "none"
    /\ pages(context) < MaxPages
    /\ LET c1 == [context EXCEPT !.owner = Append(@, k)]
       IN context' = [onPageCreated(c1, pages(c1))
                      EXCEPT !.last = ContextStep("pageCreated", 0, "")]
    /\ UNCHANGED << vars, host, extension, factory, persistent, backend, client >>

(* The 'close' event of a page, which Tab hands to the callback of         *)
(* _onPageCreated: closeTab, the user, or the browser context closing.     *)
PageClosed ==
  \E page \in Range(context.tabs) :
    /\ context' = [onPageClosed(context, page)
                   EXCEPT !.last = ContextStep("pageClosed",
                                               indexOf(context.tabs, page), "")]
    /\ UNCHANGED << vars, host, extension, factory, persistent, backend, client >>

\* Context.selectTab, up to its await of page.bringToFront()
SelectTab ==
  \E index \in 1 .. MaxPages :
    /\ context' =
         IF index \in DOMAIN context.tabs
         THEN [context EXCEPT !.selecting = @ \cup { context.tabs[index] },
                              !.last = ContextStep("selectTab", index, "")]
         ELSE [context EXCEPT !.last = ContextStep("selectTab", index, "not found")]
    /\ UNCHANGED << vars, host, extension, factory, persistent, backend, client >>

\* page.bringToFront() settles and selectTab goes on
BringToFrontSettled ==
  \E page \in context.selecting :
    /\ context' =
         IF page \in Range(context.tabs)
         THEN [context EXCEPT !.selecting = @ \ { page },
                              !.currentTab = page,
                              !.last = ContextStep("selected", 0, "")]
         ELSE [context EXCEPT !.selecting = @ \ { page },
                              !.last = ContextStep("selected", 0, "bringToFront")]
    /\ UNCHANGED << vars, host, extension, factory, persistent, backend, client >>

\* a tool or the server calls closeBrowserContext() or dispose()
ContextCloseBrowserContext ==
  \E op \in { "closeBrowserContext", "dispose" } :
    /\ context' = [contextCloseBrowserContext(context)
                   EXCEPT !.last = ContextStep(op, context.closing, "")]
    /\ UNCHANGED << vars, host, extension, factory, persistent, backend, client >>

(* The close() callback of the factory resolves, after the pages of the    *)
(* browser context have closed: every closeBrowserContext() goes on and    *)
(* clears _closeBrowserContextPromise.                                     *)
CloseResolved ==
  \E k \in DOMAIN context.creations :
    /\ context.creations[k].close = "closing"
    /\ \A page \in Range(context.tabs) : context.owner[page] # k
    /\ context' = [context EXCEPT !.creations[k].close = "closed",
                                  !.closing = IF @ = k THEN 0 ELSE @,
                                  !.last = ContextStep("contextClosed", 0, "")]
    /\ UNCHANGED << vars, host, extension, factory, persistent, backend, client >>

InitContext == RelayInit /\ Idle

NextContext ==
  \/ ObtainTab
  \/ CreationResolved
  \/ CreationRejected
  \/ NewPageSettled
  \/ PageCreated
  \/ PageClosed
  \/ SelectTab
  \/ BringToFrontSettled
  \/ ContextCloseBrowserContext
  \/ CloseResolved

SpecContext == InitContext /\ [][NextContext]_<< vars, others >>


C38_ClosedOnce ==
  /\ [](/\ \A k \in DOMAIN context.creations :
             /\ context.creations[k].closeCalls <= 1
             /\ context.creations[k].closeCalls = 1 <=>
                  context.creations[k].close \in { "closing", "closed" }
        /\ context.last.op = "contextClosed" =>
             /\ context.browserContextPromise = 0
             /\ context.closing = 0
             /\ context.tabs = << >>)
  /\ [][/\ context.last.op = "contextClosed"
        /\ context'.last.op = "ensureTab"
        => /\ context'.last.thrown = ""
           /\ Len(context'.creations) = Len(context.creations) + 1
           /\ context'.browserContextPromise = Len(context'.creations)
           /\ context'.creations[context'.browserContextPromise].state
                = "pending"]_<< vars, others >>

\* dispose() was called while the close() of the first browser context was
\* pending, and close() has been invoked once
C38_Witness ==
  /\ context.last.op = "dispose"
  /\ context.last.index = 1
  /\ context.creations[1].close = "closing"
  /\ context.creations[1].closeCalls = 1


\* the creations of browser contexts that are in flight
InFlight == { k \in DOMAIN context.creations : context.creations[k].state = "pending" }

\* C39: a Context never has two browser-context creations in flight at
\* once: concurrent callers share one creation; a creation requested while
\* a close is still in progress fails with "Another browser context is
\* being closed."; after a failed creation the next request starts a new
\* creation instead of re-using the failed one.
C39_OneCreation ==
  /\ [](/\ Cardinality(InFlight) <= 1
        /\ \A w \in context.waiting : w.k \in InFlight
        /\ context.browserContextPromise # 0 =>
             context.creations[context.browserContextPromise].state # "rejected")
  /\ [][context'.last.op \in { "newTab", "ensureTab" } =>
          /\ context.closing # 0 /\ context.browserContextPromise = 0 =>
               /\ context'.last.thrown = "Another browser context is being closed."
               /\ context'.creations = context.creations
               /\ context'.browserContextPromise = 0
          /\ context.closing = 0 =>
               /\ context'.last.thrown = ""
               /\ context'.browserContextPromise # 0
               /\ context'.creations[context'.browserContextPromise].state
                    # "rejected"
          /\ InFlight # {} /\ context.closing = 0 =>
               context'.creations = context.creations
          /\ context.last.op = "failed" /\ context.closing = 0 =>
               /\ Len(context'.creations) = Len(context.creations) + 1
               /\ context'.browserContextPromise = Len(context'.creations)]_<< vars, others >>

\* the first creation failed, ensureTab started a second one, and newTab
\* waits for the same creation
C39_Witness ==
  /\ Len(context.creations) = 2
  /\ context.creations[1].state = "rejected"
  /\ context.creations[2].state = "pending"
  /\ context.waiting = { [op |-> "ensureTab", k |-> 2], [op |-> "newTab", k |-> 2] }


----------------------------------------------------------------------------
(* A failed switch of the connection method (SpecBackend).                 *)

\* C40: when switching the connection method fails, with an unknown name or
\* a client that cannot be created or connected, browser_connect returns
\* an error result and the state is unchanged: the client selected before
\* is still the current one, is open and serves the tool calls that follow.
C40_FailedSwitchKeepsClient ==
  /\ (/\ backend.last.tool = "browser_connect"
      /\ backend.last.isError \/ backend.last.thrown # "") =>
       /\ backend.last.isError
       /\ backend.last.thrown = ""
       /\ backend.currentClient # 0
       /\ ~backend.clients[backend.currentClient].closed
  /\ (/\ backend.last.tool \in { "browser_navigate", "browser_snapshot" }
      /\ backend.switch.stage = "none") =>
       /\ backend.last.thrown = ""
       /\ ~backend.last.isError

====
